---------------------------- MODULE Spec2Model ----------------------------
(***************************************************************************)
(* A model of the IR generation core of the naive C compiler               *)
(* (src/src/ir_gen.c): the statement and expression lowerers, the          *)
(* arithmetic conversions, struct layout, the struct-return convention     *)
(* and the initializer compiler.                                           *)
(*                                                                         *)
(* The builder primitives (add_block, build_branch, ...) and the C type    *)
(* helpers (c_type_eq, c_type_rank, c_type_size, ...) live in files that   *)
(* are not part of the sources at hand; they are modelled from their       *)
(* documented effect and are marked as such in the model map.              *)
(***************************************************************************)
EXTENDS Integers, Sequences, FiniteSets, TLC

VARIABLES
  builder,  \* IrBuilder: block pool, globals, current function and block
  env,      \* Env: scope, case labels, goto tables, break/continue targets
  pc,       \* where the driver is
  machine,  \* the abstract machine that runs the emitted IR
  input,    \* the inputs drawn for the operation under study
  out       \* what the operation returned

vars == <<builder, env, pc, machine, input, out>>

-----------------------------------------------------------------------------
(* Small helpers *)

Max(a, b) == IF a >= b THEN a ELSE b

Last(s) == s[Len(s)]

SeqOfLen(S, n) == [1..n -> S]

SeqsUpTo(S, n) == UNION {SeqOfLen(S, k) : k \in 0..n}

-----------------------------------------------------------------------------
(* IR types and C types *)

IrVoid == [t |-> "IR_VOID", bit_width |-> 0]

IrPointer == [t |-> "IR_POINTER", bit_width |-> 64]

IrInt(w) == [t |-> "IR_INT", bit_width |-> w]

IntKinds == {"CHAR", "SHORT", "INT", "LONG", "LONGLONG"}

CInt(kind, is_signed) ==
  [t |-> "INTEGER_TYPE", type |-> kind, is_signed |-> is_signed]

IntegerTypes == {CInt(k, s) : k \in IntKinds, s \in BOOLEAN}

int_type == CInt("INT", TRUE)

char_type == CInt("CHAR", TRUE)

void_type == [t |-> "VOID_TYPE"]

CPointer(pointee) == [t |-> "POINTER_TYPE", pointee_type |-> pointee]

\* pointer_type: the type "pointer to type".
pointer_type(type) == CPointer(type)

\* The integer type as wide as a pointer.
int_ptr_type == CInt("LONG", TRUE)

CFunction(return_type, arg_type_array, variable_arity) ==
  [t |-> "FUNCTION_TYPE", return_type |-> return_type,
   arg_type_array |-> arg_type_array, arity |-> Len(arg_type_array),
   variable_arity |-> variable_arity]

\* decay_to_pointer: an array decays to a pointer to its first element.
decay_to_pointer(ctype) ==
  IF ctype.t = "ARRAY_TYPE" THEN CPointer(ctype.elem_type) ELSE ctype

\* type_of_int_literal: a literal without suffix that fits an int is an int.
type_of_int_literal(int_literal) == int_type

\* rank(): CHAR < SHORT < INT < LONG < LONGLONG
c_type_rank(type) ==
  CASE type.type = "CHAR" -> 1
    [] type.type = "SHORT" -> 2
    [] type.type = "INT" -> 3
    [] type.type = "LONG" -> 4
    [] type.type = "LONGLONG" -> 5

\* Width in bits of an integer kind on the System V x86-64 target.
IntBitWidth(kind) ==
  CASE kind = "CHAR" -> 8
    [] kind = "SHORT" -> 16
    [] kind = "INT" -> 32
    [] kind = "LONG" -> 64
    [] kind = "LONGLONG" -> 64

c_type_to_ir_type(ctype) ==
  CASE ctype.t = "VOID_TYPE" -> IrVoid
    [] ctype.t = "INTEGER_TYPE" -> IrInt(IntBitWidth(ctype.type))
    [] ctype.t = "POINTER_TYPE" -> IrPointer
    [] ctype.t = "ARRAY_TYPE" -> ctype.ir_type
    [] ctype.t = "FUNCTION_TYPE" -> [t |-> "IR_FUNCTION", bit_width |-> 0]
    [] ctype.t = "STRUCT_TYPE" -> ctype.ir_type

\* C types are compared structurally.
c_type_eq(a, b) == a = b

IrArray(elem_type, size) ==
  [t |-> "IR_ARRAY", bit_width |-> 0, elem_type |-> elem_type, size |-> size]

\* trans_unit_add_struct: a named aggregate with room for its fields.
IrStruct(name, fields, total_size, alignment) ==
  [t |-> "IR_STRUCT", bit_width |-> 0, name |-> name, fields |-> fields,
   total_size |-> total_size, alignment |-> alignment]

RECURSIVE size_of_ir_type(_)
size_of_ir_type(type) ==
  CASE type.t = "IR_INT" -> type.bit_width \div 8
    [] type.t = "IR_POINTER" -> 8
    [] type.t = "IR_ARRAY" -> type.size * size_of_ir_type(type.elem_type)
    [] type.t = "IR_STRUCT" -> type.total_size

RECURSIVE align_of_ir_type(_)
align_of_ir_type(type) ==
  CASE type.t = "IR_INT" -> type.bit_width \div 8
    [] type.t = "IR_POINTER" -> 8
    [] type.t = "IR_ARRAY" -> align_of_ir_type(type.elem_type)
    [] type.t = "IR_STRUCT" -> type.alignment

\* align_to: n rounded up to a multiple of align.
align_to(n, align) == ((n + align - 1) \div align) * align

\* array_type: an array of size elements of elem_type; the IR type of an
\* array of arrays is one flat array.
array_type(elem_type, size) ==
  LET ir_elem == c_type_to_ir_type(elem_type)
  IN  [t |-> "ARRAY_TYPE", elem_type |-> elem_type, size |-> size,
       incomplete |-> FALSE,
       ir_type |-> IF ir_elem.t = "IR_ARRAY"
                     THEN IrArray(ir_elem.elem_type, size * ir_elem.size)
                     ELSE IrArray(ir_elem, size)]

\* An array type whose length is still unknown.
incomplete_array_type(elem_type) ==
  [array_type(elem_type, 0) EXCEPT !.incomplete = TRUE]

\* set_array_type_length: the array type is completed with its length.
set_array_type_length(type, size) == array_type(type.elem_type, size)

\* c_type_size: sizeof.
c_type_size(ctype) == size_of_ir_type(c_type_to_ir_type(ctype))

\* c_type_num_fields: the elements of an array, the fields of a struct.
c_type_num_fields(ctype) ==
  IF ctype.t = "ARRAY_TYPE" THEN ctype.size ELSE Len(ctype.fields)

\* The type of sizeof.
size_type == CInt("LONG", FALSE)

CDecl(name, type) == [name |-> name, type |-> type]

\* struct_type: a struct or union type of the given name, still incomplete.
struct_type(name) ==
  [t |-> "STRUCT_TYPE", name |-> name, fields |-> <<>>, incomplete |-> TRUE,
   ir_type |-> IrStruct(name, <<>>, 0, 0)]

-----------------------------------------------------------------------------
(* IR values, instructions and the builder *)

value_const(type, constant) ==
  [t |-> "IR_VALUE_CONST", type |-> type, u |-> constant]

value_arg(arg_index, type) ==
  [t |-> "IR_VALUE_ARG", type |-> type, u |-> arg_index]

value_global(name) ==
  [t |-> "IR_VALUE_GLOBAL", type |-> IrPointer, u |-> name]

value_instr(block, index, type) ==
  [t |-> "IR_VALUE_INSTR", type |-> type, u |-> <<block, index>>]

\* u: what else the instruction carries (the comparison of a cmp, the
\* allocated type of a local).
Instr(op, type, args, targets) ==
  [op |-> op, type |-> type, args |-> args, targets |-> targets, u |-> ""]

Terminators == {"OP_RET", "OP_RET_VOID", "OP_BRANCH", "OP_COND"}

\* aborted: an assert, UNIMPLEMENTED or exit(1) has ended the process.
\* undefined: the process has read or written memory it does not own.
EmptyBuilder ==
  [pool |-> <<>>, globals |-> <<>>, current_function |-> 0,
   current_block |-> 0, aborted |-> FALSE, undefined |-> FALSE]

Abort(b) == [b EXCEPT !.aborted = TRUE]

Undefined(b) == [b EXCEPT !.undefined = TRUE]

\* Appends an instruction to the current block and yields its value.
build_instr(b, instr) ==
  [b |-> [b EXCEPT !.pool[b.current_block].instrs = Append(@, instr)],
   value |-> value_instr(b.current_block,
                         Len(b.pool[b.current_block].instrs) + 1,
                         instr.type)]

build_type_instr(b, op, value, result_type) ==
  build_instr(b, Instr(op, result_type, <<value>>, <<>>))

build_unary_instr(b, op, arg) ==
  build_instr(b, Instr(op, arg.type, <<arg>>, <<>>))

build_binary_instr(b, op, arg1, arg2) ==
  build_instr(b, Instr(op, arg1.type, <<arg1, arg2>>, <<>>))

build_nullary_instr(b, op, type) ==
  build_instr(b, Instr(op, type, <<>>, <<>>)).b

\* A comparison yields a 32-bit boolean integer.
build_cmp(b, cmp, arg1, arg2) ==
  build_instr(b, [Instr("OP_CMP", IrInt(32), <<arg1, arg2>>, <<>>)
                    EXCEPT !.u = cmp])

build_branch(b, target_block) ==
  build_instr(b, Instr("OP_BRANCH", IrVoid, <<>>, <<target_block>>)).b

build_cond(b, condition, then_block, else_block) ==
  build_instr(b, Instr("OP_COND", IrVoid, <<condition>>,
                       <<then_block, else_block>>)).b

build_load(b, pointer, type) ==
  build_instr(b, Instr("OP_LOAD", type, <<pointer>>, <<>>))

build_store(b, pointer, value) ==
  build_instr(b, Instr("OP_STORE", IrVoid, <<pointer, value>>, <<>>)).b

build_local(b, type) ==
  build_instr(b, [Instr("OP_LOCAL", IrPointer, <<>>, <<>>) EXCEPT !.u = type])

\* builtin_memcpy, builtin_memset: the globals of the builtins.
builtin_memcpy == value_global("memcpy")

builtin_memset == value_global("memset")

add_int_const(type, integer) == [type |-> type, integer |-> integer]

add_global_const(global) == [type |-> IrPointer, global_pointer |-> global]

add_array_const(type, array_elems) ==
  [type |-> type, array_elems |-> array_elems]

add_struct_const(type, struct_fields) ==
  [type |-> type, struct_fields |-> struct_fields]

build_call(b, callee, return_type, arg_array) ==
  build_instr(b, Instr("OP_CALL", return_type, <<callee>> \o arg_array, <<>>))

\* A phi of the given arity, its parameters still unset.
build_phi(b, type, arity) ==
  build_instr(b, Instr("OP_PHI", type,
                       [i \in 1..arity |-> value_const(IrVoid, 0)],
                       [i \in 1..arity |-> 0]))

phi_set_param(b, phi, index, source_block, value) ==
  [b EXCEPT !.pool[phi.u[1]].instrs[phi.u[2]].args[index + 1] = value,
            !.pool[phi.u[1]].instrs[phi.u[2]].targets[index + 1] = source_block]

\* pool_alloc + block_init: a block that is not yet part of any function.
alloc_block(b, name) ==
  [b EXCEPT !.pool = Append(@, [name |-> name, instrs |-> <<>>])]

NewBlockId(b) == Len(b.pool) + 1

\* add_block: allocate a block and append it to the current function.
add_block(b, name) ==
  [alloc_block(b, name) EXCEPT
     !.globals[b.current_function].blocks = Append(@, NewBlockId(b))]

\* trans_unit_add_function: a new function global without a body.
trans_unit_add_function(b, name, return_type, arg_types) ==
  [b EXCEPT !.globals =
     Append(@, [name |-> name, t |-> "IR_FUNCTION",
                return_type |-> return_type, arg_types |-> arg_types,
                blocks |-> <<>>, defined |-> FALSE])]

\* The initializer of a global that has none.
NullConst == [type |-> IrVoid, failed |-> "null"]

\* trans_unit_add_var: a new variable global without an initializer.
trans_unit_add_var(b, name, type) ==
  [b EXCEPT !.globals =
     Append(@, [name |-> name, t |-> type.t, type |-> type,
                initializer |-> NullConst, defined |-> FALSE])]

\* add_init_to_function: the function gets a body with an entry block.
add_init_to_function(b, g) ==
  [alloc_block(b, "entry") EXCEPT
     !.globals[g].blocks = <<NewBlockId(b)>>,
     !.globals[g].defined = TRUE]

\* A builder positioned at the entry block of a fresh function.
BuilderInFunction(name, return_type, arg_types) ==
  LET b1 == trans_unit_add_function(EmptyBuilder, name, return_type, arg_types)
      b2 == add_init_to_function(b1, 1)
  IN  [b2 EXCEPT !.current_function = 1, !.current_block = 1]

-----------------------------------------------------------------------------
(* Terms and the environment *)

Term(ctype, value) == [ctype |-> ctype, value |-> value]

\* The machine before anything runs.
NoMachine == [running |-> FALSE]

Binding(name, constant, term) ==
  [name |-> name, constant |-> constant, term |-> term]

\* The NULL binding.
NullBinding == Binding("", FALSE, Term(void_type, value_const(IrVoid, 0)))

\* scope: the chain of scopes, the global scope first, the innermost last.
InitEnv ==
  [scope |-> <<<<>>>>, current_function_type |-> void_type,
   inline_functions |-> <<>>,
   case_labels |-> <<>>, goto_labels |-> <<>>, goto_fixups |-> <<>>,
   break_target |-> 0, continue_target |-> 0, scratch_function |-> 1,
   right_operand_first |-> FALSE]

Front(s) == SubSeq(s, 1, Len(s) - 1)

SetMin(S) == CHOOSE m \in S : \A k \in S : m <= k

SetMax(S) == CHOOSE m \in S : \A k \in S : k <= m

RECURSIVE binding_for_name(_, _)
binding_for_name(scope, name) ==
  IF scope = <<>> THEN NullBinding
  ELSE LET bindings == Last(scope)
           hits == {i \in 1..Len(bindings) : bindings[i].name = name}
       IN  IF hits # {} THEN bindings[SetMin(hits)]
           ELSE binding_for_name(Front(scope), name)

\* ARRAY_APPEND(&env->scope->bindings, Binding)
AppendBinding(e, binding) ==
  [e EXCEPT !.scope[Len(e.scope)] = Append(@, binding)]

-----------------------------------------------------------------------------
(* Type conversion (convert_type) and the usual arithmetic conversions *)

\* A plausible slip: the operand is taken to be an int whatever its type,
\* so it is first narrowed to 32 bits and then widened to the target.
convert_type_via_int(b, term, target_type) ==
  LET Converted(r) == [b |-> r.b, term |-> Term(target_type, r.value)]
      Widened(t) ==
        Converted(build_type_instr(t.b, "OP_SEXT", t.value,
                                   c_type_to_ir_type(target_type)))
  IN  Widened(IF term.value.type.bit_width > 32
                THEN build_type_instr(b, "OP_TRUNC", term.value, IrInt(32))
                ELSE [b |-> b, value |-> term.value])

convert_type(b, term, target_type) ==
  IF c_type_eq(term.ctype, target_type) THEN [b |-> b, term |-> term]
  ELSE
    LET from == term.ctype.t
        to == target_type.t
        ir_type == c_type_to_ir_type(target_type)
        Converted(r) == [b |-> r.b, term |-> Term(target_type, r.value)]
        Cast(z) == build_type_instr(z.b, "OP_CAST", z.value, ir_type)
    IN  Converted(
             CASE from = "INTEGER_TYPE" /\ to = "INTEGER_TYPE" ->
                    IF c_type_to_ir_type(term.ctype).bit_width
                         > ir_type.bit_width
                      THEN build_type_instr(b, "OP_TRUNC", term.value, ir_type)
                    ELSE IF term.ctype.is_signed
                      THEN build_type_instr(b, "OP_SEXT", term.value, ir_type)
                    ELSE build_type_instr(b, "OP_ZEXT", term.value, ir_type)
               [] from = "INTEGER_TYPE" /\ to = "POINTER_TYPE" ->
                    Cast(IF c_type_to_ir_type(term.ctype).bit_width < 64
                           THEN build_type_instr(b, "OP_ZEXT", term.value,
                                                 IrInt(64))
                           ELSE [b |-> b, value |-> term.value])
               [] from = "POINTER_TYPE" /\ to = "INTEGER_TYPE" ->
                    build_type_instr(b, "OP_CAST", term.value, ir_type)
               [] from = "POINTER_TYPE" /\ to = "POINTER_TYPE" ->
                    [b |-> b, value |-> term.value]
               [] from = "ARRAY_TYPE" /\ to = "POINTER_TYPE" ->
                    [b |-> IF term.value.type.t = "IR_POINTER"
                             THEN b ELSE Abort(b),
                     value |-> term.value]
               [] from = "FUNCTION_TYPE" /\ to = "POINTER_TYPE"
                    /\ c_type_eq(target_type.pointee_type, term.ctype) ->
                    [b |-> b, value |-> term.value]
               [] to = "VOID_TYPE" -> [b |-> b, value |-> term.value]
               [] OTHER -> [b |-> Abort(b), value |-> term.value])

\* A plausible slip: the comparison of the ranks is turned around, so the
\* higher-rank operand is converted to the lower-rank type.
do_arithmetic_conversions_with_blocks_swapped(b, left, left_block, right, right_block) ==
  IF c_type_rank(left.ctype) = c_type_rank(right.ctype)
       /\ left.ctype.is_signed = right.ctype.is_signed
    THEN [b |-> b, left |-> left, right |-> right]
  ELSE IF c_type_rank(left.ctype) >= c_type_rank(right.ctype)
    THEN LET Left(c) == [b |-> [c.b EXCEPT !.current_block = b.current_block],
                         left |-> c.term, right |-> right]
         IN  Left(convert_type([b EXCEPT !.current_block = left_block],
                               left, right.ctype))
  ELSE LET Right(c) == [b |-> [c.b EXCEPT !.current_block = b.current_block],
                        left |-> left, right |-> c.term]
       IN  Right(convert_type([b EXCEPT !.current_block = right_block],
                              right, left.ctype))

do_arithmetic_conversions_with_blocks(b, left, left_block, right, right_block) ==
  LET original_block == b.current_block
      Restore(bb) == [bb EXCEPT !.current_block = original_block]
      Left(c) == [b |-> Restore(c.b), left |-> c.term, right |-> right]
      Right(c) == [b |-> Restore(c.b), left |-> left, right |-> c.term]
      ConvLeft(block, type) ==
        Left(convert_type([b EXCEPT !.current_block = block], left, type))
      ConvRight(block, type) ==
        Right(convert_type([b EXCEPT !.current_block = block], right, type))
  IN
  IF left.ctype.is_signed = right.ctype.is_signed
    THEN IF c_type_rank(left.ctype) # c_type_rank(right.ctype)
           THEN IF c_type_rank(left.ctype) < c_type_rank(right.ctype)
                  THEN ConvLeft(left_block, right.ctype)
                  ELSE ConvRight(right_block, left.ctype)
           ELSE [b |-> b, left |-> left, right |-> right]
  ELSE
    LET left_signed == left.ctype.is_signed
        signed_term == IF left_signed THEN left ELSE right
        unsigned_term == IF left_signed THEN right ELSE left
        signed_block == IF left_signed THEN left_block ELSE right_block
        unsigned_block == IF left_signed THEN right_block ELSE left_block
    IN
    IF c_type_rank(unsigned_term.ctype) >= c_type_rank(signed_term.ctype)
      THEN IF left_signed THEN ConvLeft(signed_block, unsigned_term.ctype)
                          ELSE ConvRight(signed_block, unsigned_term.ctype)
    ELSE IF c_type_rank(signed_term.ctype) > c_type_rank(unsigned_term.ctype)
      THEN IF left_signed THEN ConvRight(unsigned_block, signed_term.ctype)
                          ELSE ConvLeft(unsigned_block, signed_term.ctype)
    ELSE [b |-> Abort(b), left |-> left, right |-> right]

do_arithmetic_conversions(b, left, right) ==
  do_arithmetic_conversions_with_blocks(b, left, b.current_block,
                                        right, b.current_block)

-----------------------------------------------------------------------------
(* The value an IR value denotes: little-endian bytes, one per 8 bits of   *)
(* its IR type.                                                            *)

RECURSIVE ToBytes(_, _)
ToBytes(n, k) == IF k = 0 THEN <<>> ELSE <<n % 256>> \o ToBytes(n \div 256, k - 1)

SignFill(bytes) == IF Last(bytes) >= 128 THEN 255 ELSE 0

Extend(bytes, n, fill) == bytes \o [i \in 1..(n - Len(bytes)) |-> fill]

RECURSIVE EvalValue(_, _, _)
EvalValue(b, argv, v) ==
  CASE v.t = "IR_VALUE_ARG" -> argv[v.u + 1]
    [] v.t = "IR_VALUE_CONST" -> ToBytes(v.u, v.type.bit_width \div 8)
    [] v.t = "IR_VALUE_INSTR" ->
         LET ins == b.pool[v.u[1]].instrs[v.u[2]]
             a == EvalValue(b, argv, ins.args[1])
             n == ins.type.bit_width \div 8
         IN  CASE ins.op = "OP_TRUNC" -> SubSeq(a, 1, n)
               [] ins.op = "OP_SEXT" -> Extend(a, n, SignFill(a))
               [] ins.op = "OP_ZEXT" -> Extend(a, n, 0)
               [] ins.op = "OP_CAST" -> a

-----------------------------------------------------------------------------
(* Conversions on their own: a pair of integer operands, the arguments of  *)
(* a function, is converted for a binary operator, or the left one is cast *)
(* to a type and back.                                                     *)

\* Argument values tried for a width of n bytes.
ByteSamples(n) ==
  {[i \in 1..n |-> IF i = 1 THEN lo ELSE IF i = n THEN hi ELSE 0] :
     lo \in {1, 200}, hi \in {0, 255}}

ConvInputs ==
  UNION {
    {[left |-> Term(L, value_arg(0, c_type_to_ir_type(L))),
      right |-> Term(R, value_arg(1, c_type_to_ir_type(R))),
      argv |-> <<x, ToBytes(1, IntBitWidth(R.type) \div 8)>>] :
       x \in ByteSamples(IntBitWidth(L.type) \div 8)} :
    L \in IntegerTypes, R \in IntegerTypes}

InitConv ==
  /\ input \in ConvInputs
  /\ builder = BuilderInFunction("f", IrVoid,
                                 <<input.left.value.type,
                                   input.right.value.type>>)
  /\ env = InitEnv
  /\ pc = "cv_input"
  /\ machine = NoMachine
  /\ out = [left |-> input.left, right |-> input.right, via |-> void_type]

\* A binary operator converts its operands.
DoArithmeticConversions ==
  /\ pc = "cv_input"
  /\ LET r == do_arithmetic_conversions(builder, input.left, input.right)
     IN  /\ builder' = r.b
         /\ out' = [out EXCEPT !.left = r.left, !.right = r.right]
  /\ pc' = "cv_converted"
  /\ UNCHANGED <<env, machine, input>>

\* A cast of the left operand to an integer type T.
ConvertType ==
  /\ pc = "cv_input"
  /\ \E T \in IntegerTypes :
       LET r == convert_type(builder, input.left, T)
       IN  /\ builder' = r.b
           /\ out' = [out EXCEPT !.left = r.term, !.via = T]
  /\ pc' = "cv_once"
  /\ UNCHANGED <<env, machine, input>>

\* A cast of the result back to the type the operand had.
ConvertBack ==
  /\ pc = "cv_once"
  /\ LET r == convert_type(builder, out.left, input.left.ctype)
     IN  /\ builder' = r.b
         /\ out' = [out EXCEPT !.left = r.term]
  /\ pc' = "cv_back"
  /\ UNCHANGED <<env, machine, input>>

NextConv == DoArithmeticConversions \/ ConvertType \/ ConvertBack

SpecConv == InitConv /\ [][NextConv]_vars

\* The common type the usual arithmetic conversions are to arrive at.
CommonType(L, R) ==
  IF L.is_signed = R.is_signed
    THEN IF c_type_rank(L) >= c_type_rank(R) THEN L ELSE R
  ELSE LET u == IF L.is_signed THEN R ELSE L
           s == IF L.is_signed THEN L ELSE R
       IN  IF c_type_rank(u) >= c_type_rank(s) THEN u ELSE s

\* C6: after do_arithmetic_conversions on integer operands of types (L, R)
\* both operands have one C type: the higher-rank type when the signedness
\* matches, else the unsigned operand's type when its rank is at least the
\* signed operand's, else the signed operand's type; and the pair (R, L)
\* arrives at the same type.
C6_CommonType ==
  pc = "cv_converted" =>
    /\ ~builder.aborted
    /\ out.left.ctype = out.right.ctype
    /\ out.left.ctype = CommonType(input.left.ctype, input.right.ctype)
    /\ LET r == do_arithmetic_conversions(
                  BuilderInFunction("f", IrVoid, <<input.right.value.type,
                                                   input.left.value.type>>),
                  Term(input.right.ctype,
                       value_arg(0, input.right.value.type)),
                  Term(input.left.ctype,
                       value_arg(1, input.left.value.type)))
       IN  r.left.ctype = out.left.ctype /\ r.right.ctype = out.left.ctype

\* An unsigned operand of lower rank than a signed one has been converted.
C6_Witness ==
  /\ pc = "cv_converted"
  /\ ~input.left.ctype.is_signed /\ input.right.ctype.is_signed
  /\ c_type_rank(input.left.ctype) < c_type_rank(input.right.ctype)
  /\ out.left.ctype = input.right.ctype
  /\ out.left.value.t = "IR_VALUE_INSTR"

EqualWidthAndSignedness(a, b) ==
  /\ IntBitWidth(a.type) = IntBitWidth(b.type)
  /\ a.is_signed = b.is_signed

\* C7: converting a value x to an integer type T of the same width and
\* signedness as its own and back yields x again, with its type.
C7_RoundTrip ==
  (pc = "cv_back" /\ EqualWidthAndSignedness(input.left.ctype, out.via)) =>
    /\ ~builder.aborted
    /\ out.left.ctype = input.left.ctype
    /\ EvalValue(builder, input.argv, out.left.value) = input.argv[1]

\* A long with its top byte set went to long long and back through two
\* conversion instructions.
C7_Witness ==
  /\ pc = "cv_back"
  /\ input.left.ctype = CInt("LONG", TRUE)
  /\ out.via = CInt("LONGLONG", TRUE)
  /\ input.argv[1][8] = 255
  /\ out.left.value.t = "IR_VALUE_INSTR"
  /\ Len(builder.pool[1].instrs) = 2

-----------------------------------------------------------------------------
(* Struct and union layout (decl_specifier_list_to_c_type)                 *)

\* A plausible slip: the field is placed at the running offset as if every
\* struct were packed.
struct_field_offset_unaligned(current_offset, field_align, is_packed) ==
  current_offset

\* Where the next field of a struct goes.
struct_field_offset(current_offset, field_align, is_packed) ==
  IF ~is_packed THEN align_to(current_offset, field_align) ELSE current_offset

\* A plausible slip: no padding at the end.
struct_total_size_unpadded(is_struct, current_offset, max_field_size, is_packed, max_field_align) ==
  IF is_struct THEN current_offset ELSE max_field_size

struct_total_size(is_struct, current_offset, max_field_size, is_packed, max_field_align) ==
  align_to(IF is_struct THEN current_offset ELSE max_field_size,
           IF is_packed THEN 1 ELSE max_field_align)

\* The layout loop over fields i..Len(fields); acc carries the locals
\* current_offset, max_field_size, max_field_align and the IR fields so far.
RECURSIVE layout_fields(_, _, _, _, _)
layout_fields(fields, i, is_struct, is_packed, acc) ==
  IF i > Len(fields) THEN acc
  ELSE
    LET field_type == c_type_to_ir_type(fields[i].type)
        field_size == size_of_ir_type(field_type)
        field_align == align_of_ir_type(field_type)
        offset == IF is_struct
                    THEN struct_field_offset(acc.current_offset, field_align,
                                             is_packed)
                    ELSE 0
    IN  layout_fields(fields, i + 1, is_struct, is_packed,
          [current_offset |-> IF is_struct THEN offset + field_size
                                           ELSE acc.current_offset,
           max_field_size |-> Max(acc.max_field_size, field_size),
           max_field_align |-> Max(acc.max_field_align, field_align),
           ir_fields |-> Append(acc.ir_fields,
                                [type |-> field_type, offset |-> offset])])

\* The struct or union specifier with a field list: the complete C type.
struct_specifier_to_c_type(name, fields, is_struct, is_packed) ==
  LET acc == layout_fields(fields, 1, is_struct, is_packed,
               [current_offset |-> 0, max_field_size |-> 0,
                max_field_align |-> 0, ir_fields |-> <<>>])
  IN  [struct_type(name) EXCEPT
         !.fields = fields,
         !.incomplete = FALSE,
         !.ir_type =
           IrStruct(name, acc.ir_fields,
                    struct_total_size(is_struct, acc.current_offset,
                                      acc.max_field_size, is_packed,
                                      acc.max_field_align),
                    IF is_packed THEN 1 ELSE acc.max_field_align)]

MaxFields == 3

\* Field types tried: the scalar widths, a pointer and arrays whose size
\* is not a multiple of the alignment of other fields.
LayoutFieldTypes ==
  {char_type, CInt("SHORT", TRUE), int_type, CInt("LONG", FALSE),
   CPointer(char_type), array_type(char_type, 3), array_type(char_type, 5),
   array_type(int_type, 3)}

FieldNames == <<"a", "b", "c", "d", "e", "f">>

FieldLists ==
  UNION {{[i \in 1..n |-> CDecl(FieldNames[i], ts[i])] :
            ts \in SeqOfLen(LayoutFieldTypes, n)} : n \in 1..MaxFields}

InitLayout ==
  /\ input \in [fields : FieldLists]
  /\ builder = EmptyBuilder
  /\ env = InitEnv
  /\ pc = "lay_input"
  /\ machine = NoMachine
  /\ out = [type |-> void_type, is_struct |-> TRUE, is_packed |-> FALSE]

\* struct S { fields } or union S { fields }, packed or not.
DeclareStruct ==
  /\ pc = "lay_input"
  /\ \E is_struct \in BOOLEAN, is_packed \in BOOLEAN :
       out' = [type |-> struct_specifier_to_c_type("S", input.fields,
                                                   is_struct, is_packed),
               is_struct |-> is_struct, is_packed |-> is_packed]
  /\ pc' = "lay_inner"
  /\ UNCHANGED <<builder, env, machine, input>>

\* struct T { x; struct S s; } or the union of the two, S being the type
\* just declared.
DeclareOuter ==
  /\ pc = "lay_inner"
  /\ \E first \in {char_type, int_type}, is_struct \in BOOLEAN,
        is_packed \in BOOLEAN :
       out' = [type |-> struct_specifier_to_c_type(
                          "T", <<CDecl("x", first), CDecl("s", out.type)>>,
                          is_struct, is_packed),
               is_struct |-> is_struct, is_packed |-> is_packed]
  /\ pc' = "lay_outer"
  /\ UNCHANGED <<builder, env, machine, input>>

NextLayout == DeclareStruct \/ DeclareOuter

SpecLayout == InitLayout /\ [][NextLayout]_vars

LaidOut == pc \in {"lay_inner", "lay_outer"}

IrFields == out.type.ir_type.fields

FieldEnd(f) == f.offset + size_of_ir_type(f.type)

\* C8: a laid-out struct or union is at least as large as the end of each
\* field, its size is a multiple of its alignment, and in a non-packed
\* struct every field sits at a multiple of its own alignment, after the
\* end of the field declared before it.
C8_Layout ==
  LaidOut =>
    /\ \A i \in 1..Len(IrFields) :
         out.type.ir_type.total_size >= FieldEnd(IrFields[i])
    /\ out.type.ir_type.total_size % out.type.ir_type.alignment = 0
    /\ (out.is_struct /\ ~out.is_packed) =>
         /\ \A i \in 1..Len(IrFields) :
              IrFields[i].offset % align_of_ir_type(IrFields[i].type) = 0
         /\ \A i \in 1..Len(IrFields), j \in 1..Len(IrFields) :
              i < j => FieldEnd(IrFields[i]) <= IrFields[j].offset

\* struct { char; int; char[5]; }: padding before the int and at the end.
C8_Witness ==
  /\ pc = "lay_inner"
  /\ out.is_struct /\ ~out.is_packed
  /\ Len(IrFields) = 3
  /\ IrFields[2].offset = 4
  /\ IrFields[3].offset = 8
  /\ out.type.ir_type.total_size = 16

MaxFieldSize ==
  LET sizes == {size_of_ir_type(IrFields[i].type) : i \in 1..Len(IrFields)}
  IN  CHOOSE m \in sizes : \A k \in sizes : k <= m

\* C9 as stated: in a union every field is at offset 0 and the total size
\* is the largest field size.
C9_UnionSizeIsMaxFieldSize ==
  (LaidOut /\ ~out.is_struct) =>
    /\ \A i \in 1..Len(IrFields) : IrFields[i].offset = 0
    /\ out.type.ir_type.total_size = MaxFieldSize

\* C9: in a union every field is at offset 0 and the total size is the
\* largest field size rounded up to a multiple of the union's alignment
\* (which is 1 for a packed union).
C9_UnionSizeIsPaddedMaxFieldSize ==
  (LaidOut /\ ~out.is_struct) =>
    /\ \A i \in 1..Len(IrFields) : IrFields[i].offset = 0
    /\ out.type.ir_type.total_size
         = align_to(MaxFieldSize, out.type.ir_type.alignment)
    /\ out.type.ir_type.total_size >= MaxFieldSize
    /\ out.type.ir_type.total_size < MaxFieldSize + out.type.ir_type.alignment

\* union { char[5]; int; }: size 8, not 5.
C9_Witness ==
  /\ pc = "lay_inner"
  /\ ~out.is_struct /\ ~out.is_packed
  /\ Len(IrFields) = 2
  /\ MaxFieldSize = 5
  /\ out.type.ir_type.alignment = 4
  /\ out.type.ir_type.total_size = 8

-----------------------------------------------------------------------------
(* Expressions (ir_gen_expr and its helpers)                               *)

IdentifierExpr(identifier) ==
  [t |-> "IDENTIFIER_EXPR", identifier |-> identifier]

IntLiteralExpr(value) == [t |-> "INT_LITERAL_EXPR", value |-> value]

FunctionCallExpr(callee, arg_list) ==
  [t |-> "FUNCTION_CALL_EXPR", callee |-> callee, arg_list |-> arg_list]

BinaryExpr(t, arg1, arg2) == [t |-> t, arg1 |-> arg1, arg2 |-> arg2]

ConditionalExpr(arg1, arg2, arg3) ==
  [t |-> "CONDITIONAL_EXPR", arg1 |-> arg1, arg2 |-> arg2, arg3 |-> arg3]

CastExpr(cast_type, arg) ==
  [t |-> "CAST_EXPR", cast_type |-> cast_type, arg |-> arg]

AbortIf(b, failed) == IF failed THEN Abort(b) ELSE b

\* The process has ended: nothing is lowered any more.
Stopped(b) == b.aborted \/ b.undefined

\* Plain assignment (ir_op = OP_INVALID): aggregates are copied with
\* memcpy, scalars are converted and stored.
ir_gen_assign_op(b, e, left, right) ==
  IF left.ctype.t \in {"STRUCT_TYPE", "ARRAY_TYPE"}
    THEN LET memcpy_args ==
               <<left.value, right.value,
                 value_const(c_type_to_ir_type(int_ptr_type),
                             size_of_ir_type(left.ctype.ir_type))>>
             Copied(c) == [b |-> c.b, term |-> right]
         IN  Copied(build_call(
                      AbortIf(b, ~c_type_eq(left.ctype, right.ctype)),
                      builtin_memcpy, IrPointer, memcpy_args))
  ELSE LET Stored(result) ==
             [b |-> build_store(result.b, left.value, result.term.value),
              term |-> result.term]
       IN  Stored(convert_type(b, right, left.ctype))

\* A plausible slip: the targets of the conditional branch are exchanged.
short_circuit_cond_swapped(b, is_or, lhs_value, rhs_block, after_block) ==
  IF is_or THEN build_cond(b, lhs_value, rhs_block, after_block)
           ELSE build_cond(b, lhs_value, after_block, rhs_block)

\* The conditional branch after the left operand of && and ||.
short_circuit_cond(b, is_or, lhs_value, rhs_block, after_block) ==
  IF is_or THEN build_cond(b, lhs_value, after_block, rhs_block)
           ELSE build_cond(b, lhs_value, rhs_block, after_block)

\* The lowerers call each other and themselves through one recursive
\* operator: ir_gen("expr", ...) is ir_gen_expr, ir_gen("statement", ...) is
\* ir_gen_statement, and ir_gen("function_def", ...) and ir_gen("decl", ...)
\* are the two cases of the loop of ir_gen_toplevel.
RECURSIVE ir_gen(_, _, _, _, _)
RECURSIVE ir_gen_call_args(_, _, _, _, _, _)

\* The loop over the arguments of a call: argument i (from 1) is lowered,
\* converted to the parameter type if there is one, and appended.
ir_gen_call_args(b, e, callee_type, arg_list, i, arg_array) ==
  IF i > Len(arg_list) \/ Stopped(b) THEN [b |-> b, arg_array |-> arg_array]
  ELSE LET Appended(c) ==
             ir_gen_call_args(c.b, e, callee_type, arg_list, i + 1,
                              Append(arg_array, c.term.value))
           Lowered(a) ==
             Appended(IF i - 1 < callee_type.arity
                        THEN convert_type(a.b, a.term,
                                          callee_type.arg_type_array[i])
                        ELSE a)
       IN  Lowered(ir_gen("expr", b, e, arg_list[i], "RVALUE_CONTEXT"))

ir_gen_identifier(b, e, expr, context) ==
  LET binding == binding_for_name(e.scope, expr.identifier)
      Loaded(l) == [b |-> l.b, term |-> Term(binding.term.ctype, l.value)]
  IN  IF binding = NullBinding
        THEN [b |-> Abort(b), term |-> NullBinding.term]
      ELSE IF context = "LVALUE_CONTEXT"
              \/ binding.term.ctype.t
                   \in {"FUNCTION_TYPE", "ARRAY_TYPE", "STRUCT_TYPE"}
        THEN [b |-> AbortIf(b, binding.constant), term |-> binding.term]
      ELSE IF binding.constant THEN [b |-> b, term |-> binding.term]
      ELSE Loaded(build_load(AbortIf(b, context = "CONST_CONTEXT"),
                             binding.term.value,
                             c_type_to_ir_type(binding.term.ctype)))

ir_gen_function_call(b, e, expr) ==
  LET WithCallee(callee) ==
        LET is_function == callee.term.ctype.t = "FUNCTION_TYPE"
            is_pointer == callee.term.ctype.t = "POINTER_TYPE"
            callee_type == IF is_function
                             THEN callee.term.ctype
                             ELSE callee.term.ctype.pointee_type
            struct_ret == callee_type.return_type.t = "STRUCT_TYPE"
            return_type == callee_type.return_type
            return_ir_type == IF struct_ret THEN IrVoid
                              ELSE c_type_to_ir_type(return_type)
            WithLocal(local_for_ret_value) ==
              LET Called(call) ==
                    [b |-> call.b,
                     term |-> Term(return_type,
                                   IF struct_ret
                                     THEN local_for_ret_value.value
                                     ELSE call.value)]
                  WithArgs(args) ==
                    Called(build_call(args.b, callee.term.value,
                                      return_ir_type, args.arg_array))
              IN  WithArgs(ir_gen_call_args(
                             local_for_ret_value.b, e, callee_type,
                             expr.arg_list, 1,
                             IF struct_ret THEN <<local_for_ret_value.value>>
                                           ELSE <<>>))
        IN  IF ~is_function
                 /\ ~(is_pointer
                      /\ callee.term.ctype.pointee_type.t = "FUNCTION_TYPE")
              THEN [b |-> Abort(callee.b), term |-> NullBinding.term]
            ELSE WithLocal(
                   IF struct_ret
                     THEN build_local(callee.b, c_type_to_ir_type(return_type))
                     ELSE [b |-> callee.b, value |-> NullBinding.term.value])
  IN  WithCallee(ir_gen("expr", b, e, expr.callee, "RVALUE_CONTEXT"))

ir_gen_logical(b, e, expr) ==
  LET is_or == expr.t = "LOGICAL_OR_EXPR"
      rhs_block == NewBlockId(b)
      b1 == add_block(b, IF is_or THEN "or.rhs" ELSE "and.rhs")
      after_block == NewBlockId(b1)
      b2 == add_block(b1, IF is_or THEN "or.after" ELSE "and.after")
      int_ir_type == c_type_to_ir_type(int_type)
      WithLhs(lhs) ==
        IF Stopped(lhs.b) THEN lhs ELSE
        LET WithCond(b3) ==
              LET lhs_resultant_block == b3.current_block
                  WithRhs(rhs) ==
                    IF Stopped(rhs.b) THEN rhs ELSE
                    LET WithBool(rhs_as_bool) ==
                          LET WithBranch(b4) ==
                                LET rhs_resultant_block == b4.current_block
                                    WithPhi(phi) ==
                                      [b |-> phi_set_param(
                                               phi_set_param(
                                                 phi.b, phi.value, 0,
                                                 lhs_resultant_block,
                                                 value_const(
                                                   int_ir_type,
                                                   IF is_or THEN 1 ELSE 0)),
                                               phi.value, 1,
                                               rhs_resultant_block,
                                               rhs_as_bool.value),
                                       term |-> Term(int_type, phi.value)]
                                IN  WithPhi(build_phi(
                                      [b4 EXCEPT !.current_block = after_block],
                                      int_ir_type, 2))
                          IN  WithBranch(build_branch(rhs_as_bool.b,
                                                      after_block))
                    IN  WithBool(build_cmp(
                          AbortIf(rhs.b, rhs.term.ctype.t # "INTEGER_TYPE"),
                          "CMP_NEQ", rhs.term.value,
                          value_const(c_type_to_ir_type(rhs.term.ctype), 0)))
              IN  WithRhs(ir_gen("expr", [b3 EXCEPT !.current_block = rhs_block],
                                      e, expr.arg2, "RVALUE_CONTEXT"))
        IN  WithCond(short_circuit_cond(
                       AbortIf(lhs.b, lhs.term.ctype.t # "INTEGER_TYPE"),
                       is_or, lhs.term.value, rhs_block, after_block))
  IN  WithLhs(ir_gen("expr", b2, e, expr.arg1, "RVALUE_CONTEXT"))

\* The tail of a conditional expression, after both arms are lowered: the
\* arms are converted to a common type, each arm's block branches to the
\* join block, and the phi is built there.
ir_gen_conditional_join(b, then_term, then_resultant_block, else_term, else_resultant_block, after_block) ==
  LET both_integer == then_term.ctype.t = "INTEGER_TYPE"
                        /\ else_term.ctype.t = "INTEGER_TYPE"
      void_pointer == ~both_integer
                        /\ then_term.ctype.t = "POINTER_TYPE"
                        /\ else_term.ctype.t = "POINTER_TYPE"
                        /\ (then_term.ctype.pointee_type.t = "VOID_TYPE"
                            \/ else_term.ctype.pointee_type.t = "VOID_TYPE")
      result_type == IF void_pointer THEN pointer_type(void_type)
                                     ELSE then_term.ctype
      WithConv(conv) ==
        LET WithPhi(phi) ==
              [b |-> phi_set_param(
                       phi_set_param(phi.b, phi.value, 0,
                                     then_resultant_block, conv.left.value),
                       phi.value, 1, else_resultant_block, conv.right.value),
               term |-> Term(result_type, phi.value)]
            Branched(b6) ==
              WithPhi(build_phi([b6 EXCEPT !.current_block = after_block],
                                conv.left.value.type, 2))
        IN  Branched(build_branch(
                       [build_branch(
                          [conv.b EXCEPT
                             !.current_block = then_resultant_block],
                          after_block)
                        EXCEPT !.current_block = else_resultant_block],
                       after_block))
  IN  WithConv(IF both_integer
                 THEN do_arithmetic_conversions_with_blocks(
                        b, then_term, then_resultant_block,
                        else_term, else_resultant_block)
               ELSE [b |-> AbortIf(b, ~void_pointer
                                        /\ ~c_type_eq(then_term.ctype,
                                                      else_term.ctype)),
                     left |-> then_term, right |-> else_term])

ir_gen_conditional(b, e, expr) ==
  LET then_block == NewBlockId(b)
      b1 == add_block(b, "ternary.then")
      else_block == NewBlockId(b1)
      b2 == add_block(b1, "ternary.else")
      after_block == NewBlockId(b2)
      b3 == add_block(b2, "ternary.after")
      WithCondition(condition) ==
        IF Stopped(condition.b) THEN condition ELSE
        LET WithThen(th) ==
              IF Stopped(th.b) THEN th ELSE
              LET WithElse(el) ==
                    IF Stopped(el.b) THEN el ELSE
                    ir_gen_conditional_join(
                      el.b,
                      Term(decay_to_pointer(th.term.ctype), th.term.value),
                      th.b.current_block,
                      Term(decay_to_pointer(el.term.ctype), el.term.value),
                      el.b.current_block, after_block)
              IN  WithElse(ir_gen("expr", 
                             [th.b EXCEPT !.current_block = else_block], e,
                             expr.arg3, "RVALUE_CONTEXT"))
            Branched(b4) ==
              WithThen(ir_gen("expr", [b4 EXCEPT !.current_block = then_block],
                                   e, expr.arg2, "RVALUE_CONTEXT"))
        IN  Branched(build_cond(
                       AbortIf(condition.b,
                               condition.term.ctype.t # "INTEGER_TYPE"),
                       condition.term.value, then_block, else_block))
  IN  WithCondition(ir_gen("expr", b3, e, expr.arg1, "RVALUE_CONTEXT"))

UnaryExpr(t, arg) == [t |-> t, arg |-> arg]

\* The digits of n in base 16.
RECURSIVE Hex(_)
Hex(n) ==
  LET digit == <<"0", "1", "2", "3", "4", "5", "6", "7", "8", "9", "a", "b",
                 "c", "d", "e", "f">>[(n % 16) + 1]
  IN  IF n < 16 THEN digit ELSE Hex(n \div 16) \o digit

\* case STRING_LITERAL_EXPR: a new global array of char holds the
\* characters and the terminator.
ir_gen_string_literal(b, e, expr) ==
  LET name == "__string_literal_" \o Hex(Len(b.globals))
      length == Len(expr.chars) + 1
      result_type == set_array_type_length(incomplete_array_type(char_type),
                                           length)
      ir_type == c_type_to_ir_type(result_type)
      b1 == trans_unit_add_var(b, name, ir_type)
      konst == add_array_const(
                 ir_type,
                 [i \in 1..length |->
                    add_int_const(c_type_to_ir_type(char_type),
                                  IF i = length THEN 0 ELSE expr.chars[i])])
  IN  [b |-> [b1 EXCEPT !.globals[Len(b1.globals)].initializer = konst],
       term |-> Term(result_type, value_global(name))]

\* case SIZEOF_EXPR_EXPR: the operand is lowered into the last block of
\* the scratch function, and only its type is used.
ir_gen_sizeof_expr(b, e, expr) ==
  LET prev_function == b.current_function
      prev_block == b.current_block
      Sized(operand) ==
        IF Stopped(operand.b) THEN operand
        ELSE [b |-> [operand.b EXCEPT !.current_function = prev_function,
                                      !.current_block = prev_block],
              term |-> Term(size_type,
                            value_const(c_type_to_ir_type(size_type),
                                        c_type_size(operand.term.ctype)))]
  IN  Sized(ir_gen("expr",
                   [b EXCEPT !.current_function = e.scratch_function,
                             !.current_block =
                               Last(b.globals[e.scratch_function].blocks)],
                   e, expr.arg, "RVALUE_CONTEXT"))

\* Appends a field instruction: the address of field or element
\* field_number of the aggregate of that type at ptr.
build_field(b, ptr, type, field_number) ==
  build_instr(b, [Instr("OP_FIELD", IrPointer, <<ptr>>, <<>>)
                    EXCEPT !.u = [type |-> type,
                                  field_number |-> field_number]])

\* The term that stands for a lowering that has ended the process.
NoTerm(b) == [b |-> b, term |-> NullBinding.term]

\* The two operands of a binary operator are lowered as the arguments of
\* one call, so the build decides which is lowered first.
ir_gen_operands(b, e, expr) ==
  LET first == IF e.right_operand_first THEN expr.arg2 ELSE expr.arg1
      second == IF e.right_operand_first THEN expr.arg1 ELSE expr.arg2
      First(x) ==
        LET Second(y) ==
              [b |-> y.b,
               left |-> IF e.right_operand_first THEN y.term ELSE x.term,
               right |-> IF e.right_operand_first THEN x.term ELSE y.term]
        IN  Second(ir_gen("expr", x.b, e, second, "RVALUE_CONTEXT"))
  IN  First(ir_gen("expr", b, e, first, "RVALUE_CONTEXT"))

\* The comparison with its signedness taken from the converted operands.
UnsignedCmp(cmp) ==
  CASE cmp = "CMP_SGT" -> "CMP_UGT"
    [] cmp = "CMP_SGTE" -> "CMP_UGTE"
    [] cmp = "CMP_SLT" -> "CMP_ULT"
    [] cmp = "CMP_SLTE" -> "CMP_ULTE"
    [] OTHER -> cmp

ir_gen_cmp(b, e, left0, right0, cmp) ==
  LET left == [left0 EXCEPT !.ctype = decay_to_pointer(@)]
      right == [right0 EXCEPT !.ctype = decay_to_pointer(@)]
      left_is_ptr == left.ctype.t = "POINTER_TYPE"
      right_is_ptr == right.ctype.t = "POINTER_TYPE"
      Folded(value) ==
        [b |-> b,
         term |-> Term(int_type,
                       value_const(c_type_to_ir_type(int_type), value))]
      Compared(c, l, r, op) ==
        LET Built(v) == [b |-> v.b, term |-> Term(int_type, v.value)]
        IN  Built(build_cmp(c, op, l.value, r.value))
  IN  IF left_is_ptr /\ right_is_ptr
        THEN IF left.value.t = "IR_VALUE_GLOBAL"
                  /\ right.value.t = "IR_VALUE_GLOBAL"
               THEN Folded(IF cmp = "CMP_NEQ" THEN 1 ELSE 0)
             ELSE Compared(b, left, right, cmp)
      ELSE IF left_is_ptr \/ right_is_ptr
        THEN LET ptr_term == IF left_is_ptr THEN left ELSE right
                 other_term == IF left_is_ptr THEN right ELSE left
                 Converted(c) ==
                   IF left_is_ptr THEN Compared(c.b, left, c.term, cmp)
                   ELSE Compared(c.b, c.term, right, cmp)
             IN  IF other_term.ctype.t # "INTEGER_TYPE"
                      \/ other_term.value.t # "IR_VALUE_CONST"
                      \/ other_term.value.u # 0
                   THEN NoTerm(Abort(b))
                 ELSE IF ptr_term.value.t = "IR_VALUE_GLOBAL"
                   THEN Folded(IF cmp = "CMP_NEQ" THEN 1 ELSE 0)
                 ELSE Converted(convert_type(b, other_term, ptr_term.ctype))
      ELSE IF left.ctype.t # "INTEGER_TYPE" \/ right.ctype.t # "INTEGER_TYPE"
        THEN NoTerm(Abort(b))
      ELSE LET Conv(c) ==
                 Compared(AbortIf(c.b, ~c_type_eq(c.left.ctype,
                                                  c.right.ctype)),
                          c.left, c.right,
                          IF c.left.ctype.is_signed THEN cmp
                          ELSE UnsignedCmp(cmp))
           IN  Conv(do_arithmetic_conversions(b, left, right))

\* Integer operands: the usual arithmetic conversions, then the operation
\* on the converted operands, of the type of the left one.
ir_gen_arithmetic(b, left, right, ir_op) ==
  LET Conv(c) ==
        LET Built(v) == [b |-> v.b, term |-> Term(c.left.ctype, v.value)]
        IN  Built(build_binary_instr(c.b, ir_op, c.left.value, c.right.value))
  IN  Conv(do_arithmetic_conversions(b, left, right))

\* pointer + integer and pointer - integer when the integer is not taken
\* as a constant: the integer is scaled by the size of the pointee and
\* added to or subtracted from the pointer as an integer.
scaled_pointer_op(b, pointer, other, ir_op) ==
  LET result_type == pointer.ctype
      pointer_int_type == c_type_to_ir_type(int_ptr_type)
      Zext(zext) ==
        LET PtrToInt(ptr_to_int) ==
              LET Addend(addend) ==
                    LET Sum(sum) ==
                          LET IntToPtr(v) ==
                                [b |-> v.b, term |-> Term(result_type, v.value)]
                          IN  IntToPtr(build_type_instr(
                                         sum.b, "OP_CAST", sum.value,
                                         c_type_to_ir_type(result_type)))
                    IN  Sum(build_binary_instr(addend.b, ir_op,
                                               ptr_to_int.value, addend.value))
              IN  Addend(build_binary_instr(
                           ptr_to_int.b, "OP_MUL", zext.value,
                           value_const(pointer_int_type,
                                       c_type_size(result_type.pointee_type))))
        IN  PtrToInt(build_type_instr(zext.b, "OP_CAST", pointer.value,
                                      pointer_int_type))
  IN  Zext(build_type_instr(b, "OP_ZEXT", other.value, pointer_int_type))

ir_gen_add(b, e, left0, right0) ==
  LET left == [left0 EXCEPT !.ctype = decay_to_pointer(@)]
      right == [right0 EXCEPT !.ctype = decay_to_pointer(@)]
      left_is_pointer == left.ctype.t = "POINTER_TYPE"
      right_is_pointer == right.ctype.t = "POINTER_TYPE"
      pointer == IF left_is_pointer THEN left ELSE right
      other == IF left_is_pointer THEN right ELSE left
      pointee_type == pointer.ctype.pointee_type
      offset == IF pointee_type.t = "ARRAY_TYPE"
                  THEN other.value.u * pointee_type.ir_type.size
                  ELSE other.value.u
      Field(v) == [b |-> v.b, term |-> Term(pointer.ctype, v.value)]
  IN  IF left.ctype.t = "INTEGER_TYPE" /\ right.ctype.t = "INTEGER_TYPE"
        THEN ir_gen_arithmetic(b, left, right, "OP_ADD")
      ELSE IF left_is_pointer # right_is_pointer
        THEN IF other.ctype.t # "INTEGER_TYPE" THEN NoTerm(Abort(b))
             ELSE IF other.value.t = "IR_VALUE_CONST"
               THEN Field(build_field(
                            b, pointer.value,
                            c_type_to_ir_type(
                              incomplete_array_type(pointee_type)),
                            offset))
             ELSE scaled_pointer_op(b, pointer, other, "OP_ADD")
      ELSE NoTerm(Abort(b))

ir_gen_sub(b, e, left0, right0) ==
  LET left == [left0 EXCEPT !.ctype = decay_to_pointer(@)]
      right == [right0 EXCEPT !.ctype = decay_to_pointer(@)]
      left_is_pointer == left.ctype.t = "POINTER_TYPE"
      right_is_pointer == right.ctype.t = "POINTER_TYPE"
      pointer_int_type == c_type_to_ir_type(int_ptr_type)
      result_c_type == int_type
      LeftInt(left_int) ==
        LET RightInt(right_int) ==
              LET Diff(diff) ==
                    LET Cast(cast) ==
                          LET Scaled(v) ==
                                [b |-> v.b,
                                 term |-> Term(result_c_type, v.value)]
                          IN  Scaled(build_binary_instr(
                                       cast.b, "OP_DIV", cast.value,
                                       value_const(
                                         cast.value.type,
                                         c_type_size(
                                           left.ctype.pointee_type))))
                    IN  Cast(build_type_instr(
                               diff.b, "OP_CAST", diff.value,
                               c_type_to_ir_type(result_c_type)))
              IN  Diff(build_binary_instr(right_int.b, "OP_SUB",
                                          left_int.value, right_int.value))
        IN  RightInt(build_type_instr(left_int.b, "OP_CAST", right.value,
                                      pointer_int_type))
  IN  IF left.ctype.t = "INTEGER_TYPE" /\ right.ctype.t = "INTEGER_TYPE"
        THEN ir_gen_arithmetic(b, left, right, "OP_SUB")
      ELSE IF left_is_pointer /\ right_is_pointer
        THEN LeftInt(build_type_instr(b, "OP_CAST", left.value,
                                      pointer_int_type))
      ELSE IF left_is_pointer /\ right.ctype.t = "INTEGER_TYPE"
        THEN scaled_pointer_op(b, left, right, "OP_SUB")
      ELSE NoTerm(Abort(b))

ir_gen_binary_operator(b, e, left, right, ir_op) ==
  IF ir_op = "OP_ADD" THEN ir_gen_add(b, e, left, right)
  ELSE IF ir_op = "OP_SUB" THEN ir_gen_sub(b, e, left, right)
  ELSE IF decay_to_pointer(left.ctype).t # "INTEGER_TYPE"
          \/ decay_to_pointer(right.ctype).t # "INTEGER_TYPE"
    THEN NoTerm(Undefined(b))
  ELSE ir_gen_arithmetic(b, left, right, ir_op)

\* The IR operation of a binary operator, and the comparison of a
\* relational one.
BinaryOps ==
  [ADD_EXPR |-> "OP_ADD", MINUS_EXPR |-> "OP_SUB", MULTIPLY_EXPR |-> "OP_MUL",
   BIT_AND_EXPR |-> "OP_BIT_AND"]

CmpOps ==
  [EQUAL_EXPR |-> "CMP_EQ", NOT_EQUAL_EXPR |-> "CMP_NEQ",
   LESS_THAN_EXPR |-> "CMP_SLT", GREATER_THAN_EXPR |-> "CMP_SGT"]

ir_gen_binary_expr(b, e, expr, ir_op) ==
  LET Lowered(r) ==
        IF Stopped(r.b) THEN NoTerm(r.b)
        ELSE ir_gen_binary_operator(r.b, e, r.left, r.right, ir_op)
  IN  Lowered(ir_gen_operands(b, e, expr))

ir_gen_cmp_expr(b, e, expr, cmp) ==
  LET Lowered(r) ==
        IF Stopped(r.b) THEN NoTerm(r.b)
        ELSE ir_gen_cmp(r.b, e, r.left, r.right, cmp)
  IN  Lowered(ir_gen_operands(b, e, expr))

\* case BIT_NOT_EXPR and case UNARY_MINUS_EXPR.
ir_gen_unary(b, e, expr) ==
  LET Lowered(r) ==
        IF Stopped(r.b) THEN NoTerm(r.b) ELSE
        LET Built(v) ==
              [b |-> v.b,
               term |-> Term(IF expr.t = "BIT_NOT_EXPR" THEN int_type
                             ELSE r.term.ctype,
                             v.value)]
        IN  Built(build_unary_instr(
                    r.b, IF expr.t = "BIT_NOT_EXPR" THEN "OP_BIT_NOT"
                                                    ELSE "OP_NEG",
                    r.term.value))
  IN  Lowered(ir_gen("expr", b, e, expr.arg, "RVALUE_CONTEXT"))

\* case COMMA_EXPR: both operands are lowered for their value, the left
\* one first, and the right one is the result.
ir_gen_comma(b, e, expr) ==
  LET Left(l) ==
        IF Stopped(l.b) THEN NoTerm(l.b)
        ELSE ir_gen("expr", l.b, e, expr.arg2, "RVALUE_CONTEXT")
  IN  Left(ir_gen("expr", b, e, expr.arg1, "RVALUE_CONTEXT"))

\* ir_gen_assign_expr with OP_INVALID: the left operand as an lvalue, then
\* the right one, then the assignment.
ir_gen_assign_expr(b, e, expr) ==
  LET Left(l) ==
        LET Right(r) ==
              IF Stopped(r.b) THEN NoTerm(r.b)
              ELSE ir_gen_assign_op(r.b, e, l.term, r.term)
        IN  IF Stopped(l.b) THEN NoTerm(l.b)
            ELSE Right(ir_gen("expr", l.b, e, expr.arg2, "RVALUE_CONTEXT"))
  IN  Left(ir_gen("expr", b, e, expr.arg1, "LVALUE_CONTEXT"))

IncDecExprs ==
  {"PRE_INCREMENT_EXPR", "POST_INCREMENT_EXPR", "PRE_DECREMENT_EXPR",
   "POST_DECREMENT_EXPR"}

\* ir_gen_inc_dec over a scalar: the operand is loaded, the int 1 is added
\* or subtracted, and the result is converted and stored; the value is the
\* result, or what was loaded for the postfix operators.
ir_gen_inc_dec(b, e, expr) ==
  LET op == IF expr.t \in {"PRE_INCREMENT_EXPR", "POST_INCREMENT_EXPR"}
              THEN "OP_ADD" ELSE "OP_SUB"
      is_pre == expr.t \in {"PRE_INCREMENT_EXPR", "PRE_DECREMENT_EXPR"}
      one == Term(int_type, value_const(c_type_to_ir_type(int_type), 1))
      Ptr(ptr) ==
        LET Load(l) ==
              LET pre_assign_value == Term(ptr.term.ctype, l.value)
                  Result(r) ==
                    LET Converted(c) ==
                          [b |-> build_store(c.b, ptr.term.value,
                                             c.term.value),
                           term |-> IF is_pre THEN c.term
                                    ELSE pre_assign_value]
                    IN  IF Stopped(r.b) THEN NoTerm(r.b)
                        ELSE Converted(convert_type(r.b, r.term,
                                                    ptr.term.ctype))
              IN  Result(ir_gen_binary_operator(l.b, e, pre_assign_value,
                                                one, op))
        IN  IF Stopped(ptr.b) THEN NoTerm(ptr.b)
            ELSE IF ptr.term.ctype.t \in {"STRUCT_TYPE", "ARRAY_TYPE"}
              THEN NoTerm(Abort(ptr.b))
            ELSE Load(build_load(ptr.b, ptr.term.value,
                                 c_type_to_ir_type(ptr.term.ctype)))
  IN  Ptr(ir_gen("expr", b, e, expr.arg, "LVALUE_CONTEXT"))

\* The expressions that ir_gen_expr refuses in constant context.
NotConstExprs ==
  {"ASSIGN_EXPR", "ADD_ASSIGN_EXPR", "MINUS_ASSIGN_EXPR",
   "PRE_INCREMENT_EXPR", "POST_INCREMENT_EXPR", "PRE_DECREMENT_EXPR",
   "POST_DECREMENT_EXPR", "BIT_XOR_ASSIGN_EXPR", "BIT_AND_ASSIGN_EXPR",
   "BIT_OR_ASSIGN_EXPR", "RIGHT_SHIFT_ASSIGN_EXPR", "MULTIPLY_ASSIGN_EXPR",
   "DIVIDE_ASSIGN_EXPR", "FUNCTION_CALL_EXPR", "COMMA_EXPR"}

LvalueExprs ==
  {"IDENTIFIER_EXPR", "STRUCT_DOT_FIELD_EXPR", "STRUCT_ARROW_FIELD_EXPR",
   "INDEX_EXPR", "DEREF_EXPR"}

ir_gen_expr(b, e, expr, context) ==
  IF Stopped(b) THEN [b |-> b, term |-> NullBinding.term] ELSE
  LET b0 == AbortIf(b, \/ context = "LVALUE_CONTEXT" /\ expr.t \notin LvalueExprs
                       \/ context = "CONST_CONTEXT" /\ expr.t \in NotConstExprs)
  IN  CASE expr.t = "IDENTIFIER_EXPR" -> ir_gen_identifier(b0, e, expr, context)
        [] expr.t = "INT_LITERAL_EXPR" ->
             [b |-> b0,
              term |-> Term(type_of_int_literal(expr),
                            value_const(c_type_to_ir_type(
                                          type_of_int_literal(expr)),
                                        expr.value))]
        [] expr.t = "FUNCTION_CALL_EXPR" -> ir_gen_function_call(b0, e, expr)
        [] expr.t \in {"LOGICAL_OR_EXPR", "LOGICAL_AND_EXPR"} ->
             ir_gen_logical(b0, e, expr)
        [] expr.t = "CONDITIONAL_EXPR" -> ir_gen_conditional(b0, e, expr)
        [] expr.t = "STRING_LITERAL_EXPR" -> ir_gen_string_literal(b0, e, expr)
        [] expr.t = "SIZEOF_EXPR_EXPR" -> ir_gen_sizeof_expr(b0, e, expr)
        [] expr.t = "CAST_EXPR" ->
             LET Cast(castee) ==
                   convert_type(castee.b, castee.term, expr.cast_type)
             IN  Cast(ir_gen("expr", b0, e, expr.arg, "RVALUE_CONTEXT"))
        [] expr.t \in DOMAIN BinaryOps ->
             ir_gen_binary_expr(b0, e, expr, BinaryOps[expr.t])
        [] expr.t \in DOMAIN CmpOps ->
             ir_gen_cmp_expr(b0, e, expr, CmpOps[expr.t])
        [] expr.t \in {"BIT_NOT_EXPR", "UNARY_MINUS_EXPR"} ->
             ir_gen_unary(b0, e, expr)
        [] expr.t = "COMMA_EXPR" -> ir_gen_comma(b0, e, expr)
        [] expr.t = "ASSIGN_EXPR" -> ir_gen_assign_expr(b0, e, expr)
        [] expr.t \in IncDecExprs -> ir_gen_inc_dec(b0, e, expr)
        [] OTHER -> [b |-> Abort(b0), term |-> NullBinding.term]

\* eval_constant_expr: the expression is lowered in constant context; it
\* must not emit anything and must come out as a constant.
eval_constant_expr(b, e, expr) ==
  LET Evaluated(r) ==
        LET num_blocks == IF b.current_function # 0
                            THEN Len(b.globals[b.current_function].blocks)
                            ELSE 0
            num_instrs == IF b.current_block # 0
                            THEN Len(b.pool[b.current_block].instrs)
                            ELSE 0
            grew == \/ /\ r.b.current_function # 0
                       /\ Len(r.b.globals[r.b.current_function].blocks)
                            # num_blocks
                    \/ /\ r.b.current_block # 0
                       /\ Len(r.b.pool[r.b.current_block].instrs)
                            # num_instrs
        IN  [b |-> AbortIf(r.b, grew \/ r.term.value.t
                                          \in {"IR_VALUE_ARG",
                                               "IR_VALUE_INSTR"}),
             konst |-> IF r.term.value.t = "IR_VALUE_GLOBAL"
                         THEN add_global_const(r.term.value.u)
                         ELSE add_int_const(c_type_to_ir_type(r.term.ctype),
                                            r.term.value.u)]
  IN  Evaluated(ir_gen("expr", b, e, expr, "CONST_CONTEXT"))

-----------------------------------------------------------------------------
(* Declarations in a scope                                                 *)

NoExpr == [t |-> "NULL"]

NoStatement == [t |-> "NULL"]

NoInitializer == [t |-> "NULL"]

ExprInitializer(expr) == [t |-> "EXPR_INITIALIZER", expr |-> expr]

\* A declaration of one name; its declarator and specifiers are given by
\* the C type they denote.
Decl(name, type, initializer) ==
  [name |-> name, type |-> type, initializer |-> initializer]

cdecl_to_binding(b, cdecl) ==
  LET Bound(l) ==
        [b |-> l.b,
         binding |-> Binding(cdecl.name, FALSE, Term(cdecl.type, l.value))]
  IN  Bound(build_local(b, c_type_to_ir_type(cdecl.type)))

-----------------------------------------------------------------------------
(* The initializer compiler                                                *)

BraceInitializer(initializer_element_list) ==
  [t |-> "BRACE_INITIALIZER",
   initializer_element_list |-> initializer_element_list]

InitializerElement(designator_list, initializer) ==
  [designator_list |-> designator_list, initializer |-> initializer]

FieldDesignator(field_name) ==
  [t |-> "FIELD_DESIGNATOR", field_name |-> field_name]

IndexDesignator(index_expr) ==
  [t |-> "INDEX_DESIGNATOR", index_expr |-> index_expr]

StringLiteralExpr(chars) == [t |-> "STRING_LITERAL_EXPR", chars |-> chars]

\* The NULL type of a CInitializer that has not been set.
NullType == [t |-> "NULL"]

\* The union u of a CInitializer: all zero, sub_elems or leaf_value.
NullElems == [kind |-> "null"]

SubElems(sub_elems) == [kind |-> "sub_elems", sub_elems |-> sub_elems]

LeafValue(leaf_value) == [kind |-> "leaf_value", leaf_value |-> leaf_value]

\* A zeroed CInitializer; C_INIT_COMPOUND is the enumerator 0.
ZeroCInit == [type |-> NullType, t |-> "C_INIT_COMPOUND", u |-> NullElems]

ZeroedElems(n) == SubElems([i \in 1..n |-> ZeroCInit])

\* The CInitializer at a path of element positions below root.
RECURSIVE CInitAt(_, _)
CInitAt(root, path) ==
  IF path = <<>> THEN root
  ELSE CInitAt(root.u.sub_elems[path[1]], Tail(path))

RECURSIVE CInitPut(_, _, _)
CInitPut(root, path, c_init) ==
  IF path = <<>> THEN c_init
  ELSE [root EXCEPT !.u.sub_elems[path[1]] =
                      CInitPut(@, Tail(path), c_init)]

\* Is sub_elems + index inside what was allocated for c_init?
HasElem(c_init, index) ==
  c_init.u.kind = "sub_elems" /\ index < Len(c_init.u.sub_elems)

\* The position of the field of that name, 0 if there is none.
FieldNumber(fields, field_name) ==
  LET hits == {i \in 1..Len(fields) : fields[i].name = field_name}
  IN  IF hits = {} THEN 0 ELSE SetMin(hits)

\* One pass of the loop over a designator list. st carries the builder,
\* the tree, containing_init and curr_elem as paths, and curr_elem_index.
apply_designator(st, e, designator, is_last) ==
  LET curr_elem == CInitAt(st.root, st.curr)
      is_field == designator.t = "FIELD_DESIGNATOR"
      wrong_type == curr_elem.type.t # (IF is_field THEN "STRUCT_TYPE"
                                                   ELSE "ARRAY_TYPE")
      field_number == IF is_field /\ ~wrong_type
                        THEN FieldNumber(curr_elem.type.fields,
                                         designator.field_name)
                        ELSE 0
      WithIndex(index) ==
        LET failed == \/ wrong_type
                      \/ is_field /\ field_number = 0
                      \/ ~is_field /\ index.konst.type.t # "IR_INT"
        IN
        IF failed THEN [st EXCEPT !.b = Abort(index.b)]
        ELSE
          LET field_type == IF is_field
                              THEN curr_elem.type.fields[field_number].type
                              ELSE curr_elem.type.elem_type
              curr_elem_index == IF is_field THEN field_number - 1
                                             ELSE index.konst.integer
              path == Append(st.containing, curr_elem_index + 1)
          IN  IF ~HasElem(CInitAt(st.root, st.containing), curr_elem_index)
                THEN [st EXCEPT !.b = Undefined(index.b),
                                !.curr_elem_index = curr_elem_index]
              ELSE
                LET old == CInitAt(st.root, path)
                    new == [old EXCEPT
                              !.type = field_type,
                              !.u = IF field_type.t \in {"STRUCT_TYPE",
                                                         "ARRAY_TYPE"}
                                       /\ old.u.kind = "null"
                                      THEN ZeroedElems(
                                             c_type_num_fields(field_type))
                                      ELSE @]
                IN  [b |-> index.b,
                     root |-> CInitPut(st.root, path, new),
                     containing |-> IF is_last THEN st.containing ELSE path,
                     curr |-> path,
                     curr_elem_index |-> curr_elem_index]
  IN  IF curr_elem.type = NullType THEN [st EXCEPT !.b = Undefined(@)]
      ELSE WithIndex(IF is_field
                       THEN [b |-> st.b, konst |-> add_int_const(IrVoid, 0)]
                       ELSE eval_constant_expr(st.b, e,
                                               designator.index_expr))

RECURSIVE apply_designators(_, _, _, _)
apply_designators(st, e, designator_list, j) ==
  IF j > Len(designator_list) \/ st.b.aborted \/ st.b.undefined THEN st
  ELSE apply_designators(
         apply_designator(st, e, designator_list[j],
                          j = Len(designator_list)),
         e, designator_list, j + 1)

RECURSIVE make_c_initializer(_, _, _, _, _, _)
RECURSIVE make_c_init_elems(_, _, _, _, _, _, _)

\* The loop over the elements of a brace initializer for the CInitializer
\* root; curr_elem_index runs on from one element to the next.
make_c_init_elems(b, e, root, elems, k, curr_elem_index, const_context) ==
  IF k > Len(elems) \/ b.aborted \/ b.undefined
    THEN [b |-> b, c_init |-> root]
  ELSE
    LET Designated(st) ==
          LET containing_init == CInitAt(st.root, st.containing)
              path == Append(st.containing, st.curr_elem_index + 1)
              curr_elem_type ==
                IF containing_init.type.t = "ARRAY_TYPE"
                  THEN containing_init.type.elem_type
                  ELSE containing_init.type
                         .fields[st.curr_elem_index + 1].type
              Made(r) ==
                make_c_init_elems(r.b, e, CInitPut(st.root, path, r.c_init),
                                  elems, k + 1, st.curr_elem_index + 1,
                                  const_context)
          IN  IF st.b.aborted \/ st.b.undefined
                THEN [b |-> st.b, c_init |-> st.root]
              ELSE IF ~HasElem(containing_init, st.curr_elem_index)
                     \/ (containing_init.type.t = "STRUCT_TYPE"
                         /\ st.curr_elem_index
                              >= Len(containing_init.type.fields))
                THEN [b |-> Undefined(st.b), c_init |-> st.root]
              ELSE Made(make_c_initializer(
                          st.b, e, curr_elem_type, elems[k].initializer,
                          const_context, CInitAt(st.root, path)))
    IN  Designated(apply_designators(
                     [b |-> b, root |-> root, containing |-> <<>>,
                      curr |-> <<>>, curr_elem_index |-> curr_elem_index],
                     e, elems[k].designator_list, 1))

make_c_initializer(b, e, type, init, const_context, c_init) ==
  LET c0 == [c_init EXCEPT !.type = type]
  IN
  IF type.t = "ARRAY_TYPE" /\ init.t = "EXPR_INITIALIZER"
       /\ init.expr.t = "STRING_LITERAL_EXPR"
    THEN [b |-> b,
          c_init |->
            [c0 EXCEPT
               !.t = "C_INIT_COMPOUND",
               !.u = SubElems(
                       [i \in 1..(Len(init.expr.chars) + 1) |->
                          [type |-> char_type, t |-> "C_INIT_LEAF",
                           u |-> LeafValue(
                                   value_const(
                                     c_type_to_ir_type(char_type),
                                     IF i <= Len(init.expr.chars)
                                       THEN init.expr.chars[i] ELSE 0))]])]]
  ELSE IF init.t = "BRACE_INITIALIZER"
    THEN IF type.t \notin {"STRUCT_TYPE", "ARRAY_TYPE"}
           THEN [b |-> Abort(b), c_init |-> c0]
         ELSE make_c_init_elems(
                b, e, [c0 EXCEPT !.u = ZeroedElems(c_type_num_fields(type))],
                init.initializer_element_list, 1, 0, const_context)
  ELSE IF init.t # "EXPR_INITIALIZER" THEN [b |-> Abort(b), c_init |-> c0]
  ELSE IF const_context
    THEN LET Evaluated(k) ==
             CASE type.t = "INTEGER_TYPE" ->
                    [b |-> AbortIf(k.b, k.konst.type.t # "IR_INT"),
                     c_init |->
                       [c0 EXCEPT
                          !.t = "C_INIT_LEAF",
                          !.u = LeafValue(
                                  IF k.konst.type.t = "IR_INT"
                                    THEN value_const(k.konst.type,
                                                     k.konst.integer)
                                    ELSE NullBinding.term.value)]]
               [] type.t = "POINTER_TYPE" ->
                    [b |-> AbortIf(k.b, k.konst.type.t # "IR_POINTER"),
                     c_init |->
                       [c0 EXCEPT
                          !.t = "C_INIT_LEAF",
                          !.u = LeafValue(
                                  IF k.konst.type.t = "IR_POINTER"
                                    THEN value_global(k.konst.global_pointer)
                                    ELSE NullBinding.term.value)]]
               [] OTHER ->
                    [b |-> Abort(k.b),
                     c_init |-> [c0 EXCEPT !.t = "C_INIT_LEAF"]]
         IN  Evaluated(eval_constant_expr(b, e, init.expr))
  ELSE LET Leaf(conv) ==
             [b |-> conv.b,
              c_init |-> [c0 EXCEPT !.t = "C_INIT_LEAF",
                                    !.u = LeafValue(conv.term.value)]]
           Lowered(term) == Leaf(convert_type(term.b, term.term, type))
       IN  Lowered(ir_gen("expr", b, e, init.expr, "RVALUE_CONTEXT"))

\* A plausible slip: only the sub-elements of the root are looked at, not
\* what lies below them.
is_full_at_root(c_init) ==
  IF c_init.type = NullType THEN "false"
  ELSE IF c_init.t = "C_INIT_LEAF" THEN "true"
  ELSE IF \E i \in 1..c_type_num_fields(c_init.type) :
            ~HasElem(c_init, i - 1)
    THEN "undefined"
  ELSE IF \A i \in 1..c_type_num_fields(c_init.type) :
            c_init.u.sub_elems[i].type # NullType
    THEN "true"
  ELSE "false"

RECURSIVE is_full_initializer(_)
RECURSIVE is_full_elems(_, _)

\* The loop of is_full_initializer from element i (from 1) on. The code
\* reads sub_elems + i for every i below the element count of the type;
\* one that lies past what make_c_initializer allocated has no defined
\* content, so the answer is "undefined".
is_full_elems(c_init, i) ==
  IF i > c_type_num_fields(c_init.type) THEN "true"
  ELSE IF ~HasElem(c_init, i - 1) THEN "undefined"
  ELSE LET Rest(full) ==
             IF full = "true" THEN is_full_elems(c_init, i + 1) ELSE full
       IN  Rest(is_full_initializer(c_init.u.sub_elems[i]))

\* "true", "false", or "undefined" where the answer depends on a read past
\* the allocated sub-elements.
is_full_initializer(c_init) ==
  IF c_init.type = NullType THEN "false"
  ELSE IF c_init.t = "C_INIT_LEAF" THEN "true"
  ELSE is_full_elems(c_init, 1)

RECURSIVE ir_gen_c_init(_, _, _, _)
RECURSIVE ir_gen_c_init_elems(_, _, _, _, _)

\* The loops of ir_gen_c_init over the elements of an array (each
\* elem_size further) or the fields of a struct (at their offsets).
ir_gen_c_init_elems(b, base_ptr, c_init, i, current_offset) ==
  IF i > c_type_num_fields(c_init.type) \/ Stopped(b) THEN b
  ELSE IF ~HasElem(c_init, i - 1) THEN Undefined(b)
  ELSE IF c_init.type.t = "ARRAY_TYPE"
    THEN ir_gen_c_init_elems(
           ir_gen_c_init(b, base_ptr, c_init.u.sub_elems[i], current_offset),
           base_ptr, c_init, i + 1,
           current_offset + c_type_size(c_init.type.elem_type))
  ELSE ir_gen_c_init_elems(
         ir_gen_c_init(b, base_ptr, c_init.u.sub_elems[i],
                       current_offset + c_init.type.ir_type.fields[i].offset),
         base_ptr, c_init, i + 1, current_offset)

ir_gen_c_init(b, base_ptr, c_init, current_offset) ==
  LET type == c_init.type
  IN  IF type = NullType THEN b
      ELSE IF type.t = "ARRAY_TYPE"
        THEN IF type.incomplete \/ c_init.t # "C_INIT_COMPOUND" THEN Abort(b)
             ELSE ir_gen_c_init_elems(b, base_ptr, c_init, 1, current_offset)
      ELSE IF type.t = "STRUCT_TYPE" /\ c_init.t = "C_INIT_COMPOUND"
        THEN ir_gen_c_init_elems(b, base_ptr, c_init, 1, current_offset)
      ELSE IF type.t = "STRUCT_TYPE"
        THEN LET Copied(dest) ==
                   build_call(dest.b, builtin_memcpy, IrPointer,
                              <<dest.value, c_init.u.leaf_value,
                                value_const(c_type_to_ir_type(size_type),
                                            c_type_size(type))>>).b
             IN  Copied(build_binary_instr(
                          b, "OP_ADD", base_ptr,
                          value_const(c_type_to_ir_type(int_ptr_type),
                                      current_offset)))
      ELSE IF c_init.t # "C_INIT_LEAF" THEN Abort(b)
      ELSE LET Stored(field_ptr) ==
                 build_store(field_ptr.b, field_ptr.value,
                             c_init.u.leaf_value)
           IN  Stored(build_binary_instr(
                        b, "OP_ADD", base_ptr,
                        value_const(c_type_to_ir_type(int_ptr_type),
                                    current_offset)))

ir_gen_initializer(b, e, to_init, init) ==
  LET Made(made) ==
        LET Based(base_ptr) ==
              ir_gen_c_init(base_ptr.b, base_ptr.value, made.c_init, 0)
            Cleared(b1) ==
              Based(build_type_instr(b1, "OP_CAST", to_init.value,
                                     c_type_to_ir_type(int_ptr_type)))
            Checked(full) ==
              IF full = "undefined" THEN Undefined(made.b)
              ELSE Cleared(
                   IF full = "false"
                     THEN build_call(
                            made.b, builtin_memset, IrPointer,
                            <<to_init.value,
                              value_const(c_type_to_ir_type(int_type), 0),
                              value_const(c_type_to_ir_type(size_type),
                                          c_type_size(to_init.ctype))>>).b
                     ELSE made.b)
        IN  IF made.b.aborted \/ made.b.undefined THEN made.b
            ELSE Checked(is_full_initializer(made.c_init))
  IN  Made(make_c_initializer(b, e, to_init.ctype, init, FALSE, ZeroCInit))

\* The constants that stand for a failed assertion and for a read through
\* a NULL pointer while a constant is built.
AbortedConst == [type |-> IrVoid, failed |-> "aborted"]

UndefinedConst == [type |-> IrVoid, failed |-> "undefined"]

RECURSIVE zero_initializer(_)
zero_initializer(ctype) ==
  CASE ctype.t = "INTEGER_TYPE" -> add_int_const(c_type_to_ir_type(ctype), 0)
    [] ctype.t = "POINTER_TYPE" -> add_global_const("")
    [] ctype.t = "ARRAY_TYPE" ->
         IF ctype.incomplete THEN AbortedConst
         ELSE add_array_const(
                c_type_to_ir_type(ctype),
                [i \in 1..ctype.size |-> zero_initializer(ctype.elem_type)])
    [] ctype.t = "STRUCT_TYPE" ->
         IF ctype.incomplete THEN AbortedConst
         ELSE add_struct_const(
                c_type_to_ir_type(ctype),
                [i \in 1..Len(ctype.fields) |->
                   zero_initializer(ctype.fields[i].type)])
    [] OTHER -> AbortedConst

RECURSIVE Concat(_)
Concat(seqs) == IF seqs = <<>> THEN <<>> ELSE seqs[1] \o Concat(Tail(seqs))

RECURSIVE const_gen_c_init(_)
RECURSIVE const_gen_c_init_array(_)

\* The constants that const_gen_c_init_array writes from *const_index on,
\* in their order.
const_gen_c_init_array(c_init) ==
  LET type == c_init.type
  IN  IF type = NullType THEN <<UndefinedConst>>
      ELSE IF type.t # "ARRAY_TYPE" THEN <<AbortedConst>>
      ELSE IF type.elem_type.t = "ARRAY_TYPE"
        THEN Concat([i \in 1..type.size |->
                       IF ~HasElem(c_init, i - 1) THEN <<UndefinedConst>>
                       ELSE const_gen_c_init_array(c_init.u.sub_elems[i])])
      ELSE [i \in 1..type.size |->
              IF ~HasElem(c_init, i - 1) THEN UndefinedConst
              ELSE IF c_init.u.sub_elems[i].type = NullType
                THEN zero_initializer(type.elem_type)
                ELSE const_gen_c_init(c_init.u.sub_elems[i])]

const_gen_c_init(c_init) ==
  LET type == c_init.type
  IN  CASE type = NullType -> AbortedConst
        [] type.t = "STRUCT_TYPE" ->
             add_struct_const(
               type.ir_type,
               [i \in 1..Len(type.fields) |->
                  IF c_init.u.sub_elems[i].type = NullType
                    THEN zero_initializer(type.fields[i].type)
                    ELSE const_gen_c_init(c_init.u.sub_elems[i])])
        [] type.t = "ARRAY_TYPE" ->
             add_array_const(type.ir_type, const_gen_c_init_array(c_init))
        [] type.t = "INTEGER_TYPE" ->
             IF c_init.u.leaf_value.type.t # "IR_INT" THEN AbortedConst
             ELSE add_int_const(c_type_to_ir_type(type), c_init.u.leaf_value.u)
        [] type.t = "POINTER_TYPE" ->
             IF c_init.u.leaf_value.t # "IR_VALUE_GLOBAL" THEN AbortedConst
             ELSE add_global_const(c_init.u.leaf_value.u)
        [] OTHER -> AbortedConst

\* The failed assertions and the reads through NULL that happened while
\* the constant was built, in the order in which they happened.
RECURSIVE ConstFailures(_)
ConstFailures(konst) ==
  IF "failed" \in DOMAIN konst THEN <<konst.failed>>
  ELSE IF "array_elems" \in DOMAIN konst
    THEN Concat([i \in 1..Len(konst.array_elems) |->
                   ConstFailures(konst.array_elems[i])])
  ELSE IF "struct_fields" \in DOMAIN konst
    THEN Concat([i \in 1..Len(konst.struct_fields) |->
                   ConstFailures(konst.struct_fields[i])])
  ELSE <<>>

\* A plausible slip: designators are ignored and the elements are counted.
infer_max_index_positional(b, e, elems, k, st) ==
  [b |-> b, max_index |-> Max(st.max_index, st.current_index + 1 + Len(elems) - k)]

\* The loop of infer_array_size_from_initializer over the elements of a
\* brace initializer; st carries current_index and max_index.
RECURSIVE infer_max_index(_, _, _, _, _)
infer_max_index(b, e, elems, k, st) ==
  IF k > Len(elems) THEN [b |-> b, max_index |-> st.max_index]
  ELSE
    LET designated == elems[k].designator_list # <<>>
        designator == elems[k].designator_list[1]
        Indexed(index_value) ==
          LET current_index == IF designated THEN index_value.konst.integer
                                             ELSE st.current_index + 1
          IN  infer_max_index(
                AbortIf(index_value.b, index_value.konst.type.t # "IR_INT"),
                e, elems, k + 1,
                [current_index |-> current_index,
                 max_index |-> Max(st.max_index, current_index)])
    IN  Indexed(IF designated /\ designator.t = "INDEX_DESIGNATOR"
                  THEN eval_constant_expr(b, e, designator.index_expr)
                  ELSE [b |-> AbortIf(b, designated),
                        konst |-> add_int_const(IrInt(32), 0)])

\* The type of the declared object, completed if it was an array of
\* unknown length with an initializer.
infer_array_size_from_initializer(b, e, init, type) ==
  IF type.t # "ARRAY_TYPE" THEN [b |-> b, type |-> type]
  ELSE IF ~type.incomplete \/ init = NoInitializer
    THEN [b |-> b, type |-> type]
  ELSE IF init.t = "BRACE_INITIALIZER"
    THEN LET Sized(r) ==
               [b |-> r.b,
                type |-> set_array_type_length(type, r.max_index + 1)]
         IN  Sized(infer_max_index(b, e, init.initializer_element_list, 1,
                                   [current_index |-> -1, max_index |-> -1]))
  ELSE [b |-> AbortIf(b, init.expr.t # "STRING_LITERAL_EXPR"),
        type |-> IF init.expr.t = "STRING_LITERAL_EXPR"
                   THEN set_array_type_length(type, Len(init.expr.chars) + 1)
                   ELSE type]

\* An enumerator of an enum specifier; value is NoExpr when it has none.
Enumerator(name, value) == [name |-> name, value |-> value]

\* A declaration whose specifier is enum { enumerator_list }.
EnumDecl(name, enumerator_list, initializer) ==
  [name |-> name, type |-> int_type, initializer |-> initializer,
   enumerator_list |-> enumerator_list]

\* The loop of decl_specifier_list_to_c_type over the enumerators of an
\* enum specifier: each is bound in the current scope to its constant.
RECURSIVE bind_enumerators(_, _, _, _, _)
bind_enumerators(b, e, enumerator_list, i, curr_enum_value) ==
  IF i > Len(enumerator_list) \/ Stopped(b) THEN [b |-> b, e |-> e]
  ELSE
    LET expr == enumerator_list[i].value
        Valued(value) ==
          LET curr == IF expr = NoExpr THEN curr_enum_value
                      ELSE value.konst.integer
          IN  bind_enumerators(
                AbortIf(value.b, value.konst.type.t # "IR_INT"),
                AppendBinding(
                  e, Binding(enumerator_list[i].name, TRUE,
                             Term(int_type,
                                  value_const(c_type_to_ir_type(int_type),
                                              curr)))),
                enumerator_list, i + 1, curr + 1)
    IN  Valued(IF expr = NoExpr
                 THEN [b |-> b, konst |-> add_int_const(IrInt(32), 0)]
                 ELSE eval_constant_expr(b, e, expr))

\* One declarator of a block-scope declaration, after the enumerators of
\* its specifier if it has any.
add_decl_to_scope(b, e, decl) ==
  IF Stopped(b) THEN [b |-> b, e |-> e] ELSE
  LET initializer == decl.initializer
      Specified(spec) ==
        LET Inferred(inferred) ==
              LET Bound(bound) ==
                    LET e1 == AppendBinding(spec.e, bound.binding)
                        Assigned(init_term) ==
                          [b |-> ir_gen_assign_op(init_term.b, e1,
                                                  bound.binding.term,
                                                  init_term.term).b,
                           e |-> e1]
                    IN  IF initializer = NoInitializer
                          THEN [b |-> bound.b, e |-> e1]
                        ELSE IF initializer.t = "EXPR_INITIALIZER"
                                /\ ~(initializer.expr.t = "STRING_LITERAL_EXPR"
                                     /\ inferred.type.t = "ARRAY_TYPE")
                          THEN Assigned(ir_gen("expr", bound.b, e1,
                                               initializer.expr,
                                               "RVALUE_CONTEXT"))
                        ELSE [b |-> ir_gen_initializer(bound.b, e1,
                                                       bound.binding.term,
                                                       initializer),
                              e |-> e1]
              IN  Bound(cdecl_to_binding(inferred.b,
                                         CDecl(decl.name, inferred.type)))
        IN  IF Stopped(spec.b) THEN spec
            ELSE Inferred(infer_array_size_from_initializer(
                            spec.b, spec.e, decl.initializer, decl.type))
  IN  Specified(IF "enumerator_list" \in DOMAIN decl
                  THEN bind_enumerators(b, e, decl.enumerator_list, 1, 0)
                  ELSE [b |-> b, e |-> e])

-----------------------------------------------------------------------------
(* Statements (ir_gen_statement)                                           *)

CompoundStatement(block_item_list) ==
  [t |-> "COMPOUND_STATEMENT", block_item_list |-> block_item_list]

BlockItemDecl(decl) == [t |-> "BLOCK_ITEM_DECL", decl |-> decl]

BlockItemStatement(statement) ==
  [t |-> "BLOCK_ITEM_STATEMENT", statement |-> statement]

ExprStatement(expr) == [t |-> "EXPR_STATEMENT", expr |-> expr]

ReturnStatement(expr) == [t |-> "RETURN_STATEMENT", expr |-> expr]

IfStatement(condition, then_statement, else_statement) ==
  [t |-> "IF_STATEMENT", condition |-> condition,
   then_statement |-> then_statement, else_statement |-> else_statement]

\* switch, case, while and do-while: an expression and a statement.
ExprAndStatement(t, expr, statement) ==
  [t |-> t, expr |-> expr, statement |-> statement]

LabeledStatement(label_name, statement) ==
  [t |-> "LABELED_STATEMENT", label_name |-> label_name,
   statement |-> statement]

\* for (init; condition; update_expr) body, init being an expression.
ForStatement(init, condition, update_expr, body) ==
  [t |-> "FOR_STATEMENT", init_type |-> "FOR_INIT_EXPR", init |-> init,
   condition |-> condition, update_expr |-> update_expr, body |-> body]

GotoStatement(goto_label) == [t |-> "GOTO_STATEMENT", goto_label |-> goto_label]

BreakStatement == [t |-> "BREAK_STATEMENT"]

ContinueStatement == [t |-> "CONTINUE_STATEMENT"]

EmptyStatement == [t |-> "EMPTY_STATEMENT"]

\* ARRAY_INSERT: elem becomes the element at (0-based) position index.
ArrayInsert(array, index, elem) ==
  SubSeq(array, 1, index) \o <<elem>> \o SubSeq(array, index + 1, Len(array))

\* ARRAY_APPEND(&builder->current_function->blocks, IrBlock *) = block
AppendBlock(b, block) ==
  [b EXCEPT !.globals[b.current_function].blocks = Append(@, block)]

SetBlock(b, block) == [b EXCEPT !.current_block = block]

SwitchCase(is_default, value, block) ==
  [is_default |-> is_default, value |-> value, block |-> block]

\* The loop of the switch over the case labels: a comparison and a new
\* switch.cmp block per case, inserted before the body.
RECURSIVE switch_cases(_, _, _, _, _)
switch_cases(b, case_labels, i, switch_value, before_body) ==
  IF i > Len(case_labels) THEN b
  ELSE IF case_labels[i].is_default
    THEN switch_cases(b, case_labels, i + 1, switch_value, before_body)
  ELSE
    LET next == NewBlockId(b)
        b1 == alloc_block(b, "switch.cmp")
        cmp == build_cmp(b1, "CMP_EQ", switch_value,
                         value_const(switch_value.type,
                                     case_labels[i].value.integer))
        b2 == build_cond(cmp.b, cmp.value, case_labels[i].block, next)
        b3 == [SetBlock(b2, next) EXCEPT
                 !.globals[b.current_function].blocks =
                   ArrayInsert(@, before_body, next)]
    IN  switch_cases(b3, case_labels, i + 1, switch_value, before_body + 1)

\* A plausible slip: the default label is never found.
DefaultIndexUnset(case_labels) == 0

\* The index of the last default label, 0 if there is none.
DefaultIndex(case_labels) ==
  LET hits == {i \in 1..Len(case_labels) : case_labels[i].is_default}
  IN  IF hits = {} THEN 0 ELSE CHOOSE m \in hits : \A k \in hits : k <= m

RECURSIVE ir_gen_block_items(_, _, _, _)

ir_gen_block_items(b, e, block_item_list, i) ==
  IF i > Len(block_item_list) \/ Stopped(b) THEN [b |-> b, e |-> e]
  ELSE LET Rest(r) == ir_gen_block_items(r.b, r.e, block_item_list, i + 1)
       IN  Rest(IF block_item_list[i].t = "BLOCK_ITEM_DECL"
                  THEN add_decl_to_scope(b, e, block_item_list[i].decl)
                  ELSE ir_gen("statement", b, e, block_item_list[i].statement, ""))

ir_gen_return(b, e, statement) ==
  IF statement.expr = NoExpr
    THEN [b |-> build_nullary_instr(b, "OP_RET_VOID", IrVoid), e |-> e]
  ELSE
    LET Lowered(term) ==
          IF Stopped(term.b) THEN [b |-> term.b, e |-> e]
          ELSE IF term.term.ctype.t = "STRUCT_TYPE"
            THEN LET caller_ptr ==
                       Term(term.term.ctype, value_arg(0, IrPointer))
                     Assigned(a) ==
                       [b |-> build_nullary_instr(a.b, "OP_RET_VOID", IrVoid),
                        e |-> e]
                 IN  Assigned(ir_gen_assign_op(term.b, e, caller_ptr,
                                               term.term))
          ELSE LET Converted(converted) ==
                     [b |-> build_unary_instr(converted.b, "OP_RET",
                                              converted.term.value).b,
                      e |-> e]
               IN  Converted(convert_type(
                               term.b, term.term,
                               e.current_function_type.return_type))
    IN  Lowered(ir_gen("expr", b, e, statement.expr, "RVALUE_CONTEXT"))

ir_gen_if(b, e, statement) ==
  LET has_else == statement.else_statement # NoStatement
      WithCondition(c) ==
        LET condition ==
              CASE c.term.ctype.t = "INTEGER_TYPE" ->
                     [b |-> c.b, value |-> c.term.value]
                [] c.term.ctype.t = "POINTER_TYPE" ->
                     build_type_instr(c.b, "OP_CAST", c.term.value,
                                      c_type_to_ir_type(int_ptr_type))
                [] OTHER -> [b |-> Abort(c.b), value |-> c.term.value]
            before_block == condition.b.current_block
            then_block == NewBlockId(condition.b)
            WithThen(th) ==
              IF Stopped(th.b) THEN th ELSE
              LET then_resultant_block == th.b.current_block
                  else_block == NewBlockId(th.b)
                  WithElse(el) ==
                    IF Stopped(el.b) THEN el ELSE
                    LET else_resultant_block == el.b.current_block
                        after_block == NewBlockId(el.b)
                        b1 == build_cond(
                                SetBlock(add_block(el.b, "if.after"),
                                         before_block),
                                condition.value, then_block,
                                IF has_else THEN else_block ELSE after_block)
                        b2 == build_branch(SetBlock(b1, then_resultant_block),
                                           after_block)
                        b3 == IF has_else
                                THEN build_branch(
                                       SetBlock(b2, else_resultant_block),
                                       after_block)
                                ELSE b2
                    IN  [b |-> SetBlock(b3, after_block), e |-> el.e]
              IN  WithElse(IF has_else
                             THEN ir_gen("statement", 
                                    SetBlock(add_block(th.b, "if.else"),
                                             else_block),
                                    th.e, statement.else_statement, "")
                             ELSE th)
        IN  IF Stopped(c.b) \/ Stopped(condition.b)
              THEN [b |-> condition.b, e |-> e]
            ELSE WithThen(ir_gen("statement", 
                            SetBlock(add_block(condition.b, "if.then"),
                                     then_block),
                            e, statement.then_statement, ""))
  IN  WithCondition(ir_gen("expr", b, e, statement.condition, "RVALUE_CONTEXT"))

\* A plausible slip: the body of a switch goes on with the list of case
\* labels of the enclosing switch.
enter_switch_keeping(e, after) == [e EXCEPT !.break_target = after]

\* The environment in which the body of a switch is lowered: an empty list
\* of case labels, and switch.after as the break target.
enter_switch(e, after) ==
  [e EXCEPT !.case_labels = <<>>, !.break_target = after]

ir_gen_switch(b, e, statement) ==
  LET prev_case_labels == e.case_labels
      switch_entry == b.current_block
      before_body == Len(b.globals[b.current_function].blocks)
      after == NewBlockId(b)
      b1 == add_block(b, "switch.after")
      prev_break_target == e.break_target
      WithBody(body) ==
        IF Stopped(body.b) THEN body ELSE
        LET b2 == build_branch(body.b, after)
            default_index == DefaultIndex(body.e.case_labels)
            Compared(b3) ==
              [b |-> SetBlock(
                       IF default_index = 0 THEN build_branch(b3, after)
                       ELSE build_branch(
                              b3, body.e.case_labels[default_index].block),
                       after),
               e |-> [body.e EXCEPT !.break_target = prev_break_target,
                                    !.case_labels = prev_case_labels]]
            WithValue(switch_value) ==
              IF Stopped(switch_value.b)
                THEN [b |-> switch_value.b, e |-> body.e]
              ELSE Compared(switch_cases(
                              AbortIf(switch_value.b,
                                      switch_value.term.ctype.t
                                        # "INTEGER_TYPE"),
                              body.e.case_labels, 1, switch_value.term.value,
                              before_body))
        IN  WithValue(ir_gen("expr", SetBlock(b2, switch_entry), body.e,
                                  statement.expr, "RVALUE_CONTEXT"))
  IN  WithBody(ir_gen("statement", 
                 SetBlock(add_block(b1, "switch.body"), NewBlockId(b1)),
                 enter_switch(e, after), statement.statement, ""))

ir_gen_case(b, e, statement) ==
  LET case_block == NewBlockId(b)
      b1 == SetBlock(build_branch(add_block(b, "switch.case"), case_block),
                     case_block)
      WithBody(body) ==
        IF Stopped(body.b) THEN body ELSE
        LET Labeled(value) ==
              [b |-> value.b,
               e |-> [body.e EXCEPT !.case_labels =
                        Append(@, SwitchCase(FALSE, value.konst, case_block))]]
        IN  Labeled(eval_constant_expr(body.b, body.e, statement.expr))
  IN  WithBody(ir_gen("statement", b1, e, statement.statement, ""))

GotoLabel(name, block) == [name |-> name, block |-> block]

GotoFixup(label_name, instr) == [label_name |-> label_name, instr |-> instr]

ir_gen_labeled(b, e, statement) ==
  LET label_name == statement.label_name
      label_block == NewBlockId(b)
      b1 == SetBlock(build_branch(add_block(b, label_name), label_block),
                     label_block)
      e1 == IF label_name = "default"
              THEN [e EXCEPT !.case_labels =
                      Append(@, SwitchCase(TRUE, add_int_const(IrVoid, 0),
                                           label_block))]
              ELSE [e EXCEPT !.goto_labels =
                      Append(@, GotoLabel(label_name, label_block))]
  IN  ir_gen("statement", b1, e1, statement.statement, "")

ir_gen_while(b, e, statement) ==
  LET pre_header == NewBlockId(b)
      b1 == add_block(b, "while.ph")
      after == NewBlockId(b1)
      b2 == SetBlock(build_branch(alloc_block(b1, "while.after"), pre_header),
                     pre_header)
      WithCondition(condition) ==
        IF Stopped(condition.b) THEN [b |-> condition.b, e |-> e] ELSE
        LET body_block == NewBlockId(condition.b)
            b3 == build_cond(
                    add_block(AbortIf(condition.b,
                                      condition.term.ctype.t # "INTEGER_TYPE"),
                              "while.body"),
                    condition.term.value, body_block, after)
            WithBody(body) ==
              IF Stopped(body.b) THEN body ELSE
              LET b4 == build_branch(body.b, pre_header)
              IN  [b |-> SetBlock(AppendBlock(b4, after), after),
                   e |-> [body.e EXCEPT
                            !.break_target = e.break_target,
                            !.continue_target = e.continue_target]]
        IN  WithBody(ir_gen("statement", 
                       SetBlock(b3, body_block),
                       [e EXCEPT !.break_target = after,
                                 !.continue_target = pre_header],
                       statement.statement, ""))
  IN  WithCondition(ir_gen("expr", b2, e, statement.expr, "RVALUE_CONTEXT"))

ir_gen_do_while(b, e, statement) ==
  LET pre_header == NewBlockId(b)
      b1 == add_block(b, "do_while.ph")
      body_block == NewBlockId(b1)
      b2 == add_block(b1, "do_while.body")
      after == NewBlockId(b2)
      b3 == SetBlock(build_branch(add_block(b2, "do_while.after"), body_block),
                     pre_header)
      WithCondition(condition) ==
        IF Stopped(condition.b) THEN [b |-> condition.b, e |-> e] ELSE
        LET b4 == build_cond(AbortIf(condition.b,
                                     condition.term.ctype.t # "INTEGER_TYPE"),
                             condition.term.value, body_block, after)
            WithBody(body) ==
              IF Stopped(body.b) THEN body ELSE
              LET b5 == build_branch(body.b, pre_header)
              IN  [b |-> SetBlock(b5, after),
                   e |-> [body.e EXCEPT
                            !.break_target = e.break_target,
                            !.continue_target = e.continue_target]]
        IN  WithBody(ir_gen("statement", 
                       SetBlock(b4, body_block),
                       [e EXCEPT !.break_target = after,
                                 !.continue_target = pre_header],
                       statement.statement, ""))
  IN  WithCondition(ir_gen("expr", b3, e, statement.expr, "RVALUE_CONTEXT"))

ir_gen_for(b, e, statement) ==
  LET pre_header == NewBlockId(b)
      b1 == add_block(b, "for.ph")
      body_block == NewBlockId(b1)
      b2 == add_block(b1, "for.body")
      update == NewBlockId(b2)
      b3 == alloc_block(b2, "for.update")
      after == NewBlockId(b3)
      b4 == alloc_block(b3, "for.after")
      prev_scope == e.scope
      WithInit(init) ==
        IF Stopped(init.b) THEN init ELSE
        LET b5 == SetBlock(build_branch(init.b, pre_header), pre_header)
            WithCondition(condition) ==
              IF Stopped(condition.b) THEN [b |-> condition.b, e |-> init.e]
              ELSE
              LET b6 == build_cond(
                          AbortIf(condition.b,
                                  condition.term.ctype.t # "INTEGER_TYPE"),
                          condition.term.value, body_block, after)
                  WithBody(body) ==
                    IF Stopped(body.b) THEN body ELSE
                    LET b7 == AppendBlock(
                                SetBlock(build_branch(body.b, update), update),
                                update)
                        e1 == [body.e EXCEPT
                                 !.break_target = e.break_target,
                                 !.continue_target = e.continue_target]
                        Updated(b8) ==
                          IF Stopped(b8) THEN [b |-> b8, e |-> e1] ELSE
                          LET b9 == build_branch(b8, pre_header)
                          IN  [b |-> AppendBlock(SetBlock(b9, after), after),
                               e |-> [e1 EXCEPT !.scope = prev_scope]]
                    IN  Updated(IF statement.update_expr # NoExpr
                                  THEN ir_gen("expr", b7, e1,
                                                   statement.update_expr,
                                                   "RVALUE_CONTEXT").b
                                  ELSE b7)
              IN  WithBody(ir_gen("statement", 
                             SetBlock(b6, body_block),
                             [init.e EXCEPT !.break_target = after,
                                            !.continue_target = update],
                             statement.body, ""))
        IN  WithCondition(
              IF statement.condition # NoExpr
                THEN ir_gen("expr", b5, init.e, statement.condition,
                                 "RVALUE_CONTEXT")
                ELSE [b |-> b5,
                      term |-> Term(int_type,
                                    value_const(c_type_to_ir_type(int_type),
                                                1))])
  IN  WithInit(IF statement.init_type = "FOR_INIT_DECL"
                 THEN add_decl_to_scope(
                        b4, [e EXCEPT !.scope = Append(@, <<>>)],
                        statement.init)
               ELSE IF statement.init # NoExpr
                 THEN [b |-> ir_gen("expr", b4, e, statement.init,
                                         "RVALUE_CONTEXT").b,
                       e |-> e]
               ELSE [b |-> b4, e |-> e])

ir_gen_goto(b, e, statement) ==
  LET branch_instr == <<b.current_block,
                        Len(b.pool[b.current_block].instrs) + 1>>
      b1 == build_branch(b, 0)
  IN  [b |-> SetBlock(add_block(b1, "goto.after"), NewBlockId(b1)),
       e |-> [e EXCEPT !.goto_fixups =
                Append(@, GotoFixup(statement.goto_label, branch_instr))]]

\* A plausible slip: break branches where continue does.
ir_gen_break_to_continue(b, e) ==
  [b |-> build_branch(AbortIf(b, e.continue_target = 0), e.continue_target),
   e |-> e]

\* case BREAK_STATEMENT
ir_gen_break(b, e) ==
  [b |-> build_branch(AbortIf(b, e.break_target = 0), e.break_target),
   e |-> e]

\* A plausible slip: the scope of a block stays current after the block.
pop_scope_kept(e) == e

\* env->scope = env->scope->parent_scope
pop_scope(e) == [e EXCEPT !.scope = Front(@)]

ir_gen_statement(b, e, statement) ==
  IF Stopped(b) THEN [b |-> b, e |-> e] ELSE
  CASE statement.t = "COMPOUND_STATEMENT" ->
         LET Closed(r) == [b |-> r.b, e |-> pop_scope(r.e)]
         IN  Closed(ir_gen_block_items(
                      b, [e EXCEPT !.scope = Append(@, <<>>)],
                      statement.block_item_list, 1))
    [] statement.t = "EXPR_STATEMENT" ->
         [b |-> ir_gen("expr", b, e, statement.expr, "RVALUE_CONTEXT").b, e |-> e]
    [] statement.t = "RETURN_STATEMENT" -> ir_gen_return(b, e, statement)
    [] statement.t = "IF_STATEMENT" -> ir_gen_if(b, e, statement)
    [] statement.t = "SWITCH_STATEMENT" -> ir_gen_switch(b, e, statement)
    [] statement.t = "CASE_STATEMENT" -> ir_gen_case(b, e, statement)
    [] statement.t = "LABELED_STATEMENT" -> ir_gen_labeled(b, e, statement)
    [] statement.t = "WHILE_STATEMENT" -> ir_gen_while(b, e, statement)
    [] statement.t = "DO_WHILE_STATEMENT" -> ir_gen_do_while(b, e, statement)
    [] statement.t = "FOR_STATEMENT" -> ir_gen_for(b, e, statement)
    [] statement.t = "GOTO_STATEMENT" -> ir_gen_goto(b, e, statement)
    [] statement.t = "BREAK_STATEMENT" -> ir_gen_break(b, e)
    [] statement.t = "CONTINUE_STATEMENT" ->
         [b |-> build_branch(AbortIf(b, e.continue_target = 0),
                             e.continue_target),
          e |-> e]
    [] statement.t = "EMPTY_STATEMENT" -> [b |-> b, e |-> e]

-----------------------------------------------------------------------------
(* Globals, functions and the translation unit (ir_gen_toplevel)           *)

\* The first global of that name, 0 if there is none.
GlobalNamed(b, name) ==
  LET hits == {i \in 1..Len(b.globals) : b.globals[i].name = name}
  IN  IF hits = {} THEN 0 ELSE SetMin(hits)

\* A plausible slip: the C parameter i is taken from the IR argument i even
\* when the function returns a struct.
ir_arg_index_unshifted(function_type, i) == i

\* The IR argument that carries the C parameter i (from 0).
ir_arg_index(function_type, i) ==
  IF function_type.return_type.t = "STRUCT_TYPE" THEN i + 1 ELSE i

ir_global_for_decl(b, e, decl) ==
  LET Inferred(inferred) ==
        LET ctype == inferred.type
            found == GlobalNamed(inferred.b, decl.name)
            struct_ret == ctype.return_type.t = "STRUCT_TYPE"
            arg_ir_types ==
              (IF struct_ret THEN <<IrPointer>> ELSE <<>>)
                \o [j \in 1..ctype.arity |->
                      c_type_to_ir_type(ctype.arg_type_array[j])]
            return_type == IF struct_ret THEN IrVoid
                           ELSE c_type_to_ir_type(ctype.return_type)
            Function(b1) ==
              LET global == IF found = 0 THEN Len(b1.globals) ELSE found
              IN  [b |-> AbortIf(b1, b1.globals[global].t # "IR_FUNCTION"),
                   global |-> global, ctype |-> ctype]
            Variable(b1) ==
              [b |-> b1,
               global |-> IF found = 0 THEN Len(b1.globals) ELSE found,
               ctype |-> ctype]
        IN  IF ctype.t = "FUNCTION_TYPE"
              THEN Function(IF found = 0
                              THEN trans_unit_add_function(
                                     inferred.b, decl.name, return_type,
                                     arg_ir_types)
                              ELSE inferred.b)
            ELSE Variable(IF found = 0
                            THEN trans_unit_add_var(inferred.b, decl.name,
                                                    c_type_to_ir_type(ctype))
                            ELSE inferred.b)
  IN  Inferred(infer_array_size_from_initializer(b, e, decl.initializer,
                                                 decl.type))

\* A function definition: its name, its C type, the names of its
\* parameters and its body.
FunctionDef(name, type, params, body) ==
  [t |-> "FUNCTION_DEF", name |-> name, type |-> type, params |-> params,
   body |-> body, is_inline |-> FALSE]

\* The loop of ir_gen_function over the parameters: parameter i (from 1)
\* gets a local, and the argument that carries it is stored there.
RECURSIVE ir_gen_params(_, _, _, _, _, _)
ir_gen_params(b, e, global, function_type, params, i) ==
  IF i > Len(params) \/ Stopped(b) THEN [b |-> b, e |-> e]
  ELSE
    LET cdecl == CDecl(params[i], function_type.arg_type_array[i])
        index == ir_arg_index(function_type, i - 1)
        arg_types == b.globals[global].arg_types
        in_range == index < Len(arg_types)
        arg == Term(cdecl.type,
                    value_arg(index, IF in_range THEN arg_types[index + 1]
                                                 ELSE IrVoid))
        Bound(bound) ==
          LET e1 == AppendBinding(e, bound.binding)
              Assigned(a) ==
                ir_gen_params(a.b, e1, global, function_type, params, i + 1)
          IN  Assigned(ir_gen_assign_op(
                         IF in_range THEN bound.b ELSE Undefined(bound.b),
                         e1, bound.binding.term, arg))
    IN  Bound(cdecl_to_binding(b, cdecl))

ir_gen_function(b, e, global, function_type, function_def) ==
  LET b1 == [add_init_to_function(b, global) EXCEPT
               !.current_function = global,
               !.current_block = NewBlockId(b)]
      e1 == [e EXCEPT !.scope = Append(@, <<>>),
                      !.current_function_type = function_type]
      WithBody(body) ==
        IF Stopped(body.b) THEN body ELSE
        LET instrs == body.b.pool[body.b.current_block].instrs
            b2 == IF instrs = <<>>
                     \/ Last(instrs).op \notin {"OP_RET", "OP_RET_VOID"}
                    THEN build_nullary_instr(body.b, "OP_RET_VOID", IrVoid)
                    ELSE body.b
        IN  [b |-> b2, e |-> [body.e EXCEPT !.scope = Front(@)]]
      WithParams(params) ==
        IF Stopped(params.b) THEN params
        ELSE WithBody(ir_gen("statement", params.b, params.e, function_def.body, ""))
  IN  WithParams(ir_gen_params(b1, e1, global, function_type,
                               function_def.params, 1))

\* ARRAY_APPEND(global_bindings, Binding) for a global.
BindGlobal(e, name, ctype) ==
  [e EXCEPT !.scope[1] =
     Append(@, Binding(name, FALSE, Term(ctype, value_global(name))))]

\* A plausible slip: the body of an inline function is emitted at its
\* definition like any other.
ir_gen_toplevel_function_def_eager(b, e, func) ==
  LET Declared(g) ==
        IF Stopped(g.b) THEN [b |-> g.b, e |-> e]
        ELSE ir_gen_function(g.b, BindGlobal(e, func.name, g.ctype), g.global,
                             g.ctype, func)
  IN  Declared(ir_global_for_decl(
                 b, e, Decl(func.name, func.type, NoInitializer)))

\* case FUNCTION_DEF of ir_gen_toplevel
ir_gen_toplevel_function_def(b, e, func) ==
  LET Declared(g) ==
        LET e1 == BindGlobal(e, func.name, g.ctype)
        IN  IF Stopped(g.b) THEN [b |-> g.b, e |-> e1]
            ELSE IF func.is_inline
              THEN [b |-> g.b,
                    e |-> [e1 EXCEPT !.inline_functions =
                             Append(@, [global |-> g.global,
                                        function_type |-> g.ctype,
                                        function_def |-> func])]]
            ELSE ir_gen_function(g.b, e1, g.global, g.ctype, func)
  IN  Declared(ir_global_for_decl(
                 b, e, Decl(func.name, func.type, NoInitializer)))

\* A declaration at file scope with its storage class ("" if none).
ToplevelDecl(storage, decl) ==
  [t |-> "DECL", storage |-> storage, decl |-> decl]

\* The CInitializer on the stack of ir_gen_toplevel, which nothing has
\* written yet; make_c_initializer sets the type and the union.
StackCInit == [type |-> NullType, t |-> "C_INIT_COMPOUND", u |-> NullElems]

\* case DECL of ir_gen_toplevel, for one declarator that is no typedef
ir_gen_toplevel_decl(b, e, item) ==
  LET decl == item.decl
      hits == {i \in 1..Len(e.inline_functions) :
                 b.globals[e.inline_functions[i].global].name = decl.name}
  IN  IF item.storage = "extern inline"
        THEN IF hits = {} THEN [b |-> Abort(b), e |-> e]
             ELSE LET matching == e.inline_functions[SetMin(hits)]
                  IN  ir_gen_function(
                        AbortIf(b, ~c_type_eq(decl.type,
                                              matching.function_type)),
                        e, matching.global, matching.function_type,
                        matching.function_def)
      ELSE
        LET Declared(g) ==
              LET is_extern == g.ctype.t = "FUNCTION_TYPE"
                                 \/ item.storage = "extern"
                  e1 == BindGlobal(e, decl.name, g.ctype)
                  b1 == AbortIf(g.b,
                                item.storage \notin {"", "static", "extern"})
                  Made(made) ==
                    LET Generated(konst) ==
                          LET failures == ConstFailures(konst)
                          IN  IF failures = <<>>
                                THEN [made.b EXCEPT
                                        !.globals[g.global].initializer =
                                          konst]
                              ELSE IF failures[1] = "undefined"
                                THEN Undefined(made.b)
                              ELSE Abort(made.b)
                    IN  [b |-> IF made.b.aborted \/ made.b.undefined
                                 THEN made.b
                               ELSE Generated(const_gen_c_init(made.c_init)),
                         e |-> e1]
              IN  IF decl.initializer = NoInitializer
                    THEN [b |-> IF is_extern THEN b1
                                ELSE [b1 EXCEPT
                                        !.globals[g.global].initializer =
                                          zero_initializer(g.ctype)],
                          e |-> e1]
                  ELSE Made(make_c_initializer(
                              AbortIf(b1, is_extern), e1, g.ctype,
                              decl.initializer, TRUE, StackCInit))
        IN  Declared(ir_global_for_decl(b, e, decl))

ir_gen(kind, b, e, node, context) ==
  CASE kind = "expr" -> ir_gen_expr(b, e, node, context)
    [] kind = "statement" -> ir_gen_statement(b, e, node)
    [] kind = "function_def" -> ir_gen_toplevel_function_def(b, e, node)
    [] kind = "decl" -> ir_gen_toplevel_decl(b, e, node)

\* The loop over the goto fixups at the end of ir_gen_toplevel: the first
\* label of the name, wherever it was declared, becomes the target.
RECURSIVE fix_gotos(_, _, _)
fix_gotos(b, e, i) ==
  IF i > Len(e.goto_fixups) THEN b
  ELSE
    LET fixup == e.goto_fixups[i]
        instr == b.pool[fixup.instr[1]].instrs[fixup.instr[2]]
        hits == {j \in 1..Len(e.goto_labels) :
                   e.goto_labels[j].name = fixup.label_name}
    IN  IF instr.op # "OP_BRANCH" \/ instr.targets # <<0>> \/ hits = {}
          THEN Abort(b)
        ELSE fix_gotos(
               [b EXCEPT !.pool[fixup.instr[1]].instrs[fixup.instr[2]].targets
                           = <<e.goto_labels[SetMin(hits)].block>>],
               e, i + 1)

\* What ir_gen_toplevel does after the last item: the gotos are fixed up
\* and the scratch function is removed.
ir_gen_toplevel_end(b, e) ==
  LET Fixed(fixed) ==
        IF fixed.aborted THEN fixed
        ELSE [AbortIf(fixed, fixed.globals[1].name # "__scratch") EXCEPT
                !.globals = Tail(@),
                !.current_function = IF @ > 0 THEN @ - 1 ELSE @]
  IN  Fixed(fix_gotos(b, e, 1))

\* The builder and the environment when ir_gen_toplevel reaches its loop.
ToplevelBuilder ==
  add_init_to_function(
    trans_unit_add_function(EmptyBuilder, "__scratch", IrVoid, <<>>), 1)

Running == pc = "toplevel" /\ ~builder.aborted /\ ~builder.undefined

\* One function definition of the translation unit is lowered.
ToplevelFunctionDef ==
  /\ Running
  /\ input # <<>>
  /\ Head(input).t = "FUNCTION_DEF"
  /\ LET Lowered(r) == builder' = r.b /\ env' = r.e
     IN  Lowered(ir_gen("function_def", builder, env, Head(input), ""))
  /\ input' = Tail(input)
  /\ UNCHANGED <<pc, machine, out>>

\* One declaration of the translation unit is lowered.
ToplevelDeclaration ==
  /\ Running
  /\ input # <<>>
  /\ Head(input).t = "DECL"
  /\ LET Lowered(r) == builder' = r.b /\ env' = r.e
     IN  Lowered(ir_gen("decl", builder, env, Head(input), ""))
  /\ input' = Tail(input)
  /\ UNCHANGED <<pc, machine, out>>

\* The end of the translation unit.
ToplevelEnd ==
  /\ Running
  /\ input = <<>>
  /\ builder' = ir_gen_toplevel_end(builder, env)
  /\ pc' = "done"
  /\ UNCHANGED <<env, machine, input, out>>

NextToplevel == ToplevelFunctionDef \/ ToplevelDeclaration \/ ToplevelEnd

\* The state in which ir_gen_toplevel starts on the translation unit.
InitToplevel(unit) ==
  /\ builder = ToplevelBuilder
  /\ env = InitEnv
  /\ pc = "toplevel"
  /\ machine = NoMachine
  /\ input = unit
  /\ out = [unit |-> unit]

-----------------------------------------------------------------------------
(* Control flow: translation units of a global int x and two functions     *)
(* int f(void) and int g(void) whose bodies nest the statement forms.      *)

CondExpr == IdentifierExpr("x")

SimpleStatements ==
  {ReturnStatement(IntLiteralExpr(1)), BreakStatement, ContinueStatement,
   GotoStatement("L"), ExprStatement(CondExpr), EmptyStatement}

\* The statement forms around a statement s.
StatementForms(s) ==
  {IfStatement(CondExpr, s, NoStatement),
   IfStatement(CondExpr, s, ExprStatement(CondExpr)),
   IfStatement(CondExpr, EmptyStatement, s),
   ExprAndStatement("WHILE_STATEMENT", CondExpr, s),
   ExprAndStatement("DO_WHILE_STATEMENT", CondExpr, s),
   ForStatement(NoExpr, CondExpr, NoExpr, s),
   ForStatement(CondExpr, NoExpr, CondExpr, s),
   ExprAndStatement(
     "SWITCH_STATEMENT", CondExpr,
     CompoundStatement(
       <<BlockItemStatement(
           ExprAndStatement("CASE_STATEMENT", IntLiteralExpr(1), s)),
         BlockItemStatement(LabeledStatement("default", BreakStatement))>>)),
   LabeledStatement("M", s),
   CompoundStatement(<<BlockItemStatement(s)>>)}

OneForm == UNION {StatementForms(s) : s \in SimpleStatements}

TwoForms == UNION {StatementForms(s) : s \in OneForm}

\* { s  L: ;  return 0; }
BodyWithLabel(s) ==
  CompoundStatement(
    <<BlockItemStatement(s),
      BlockItemStatement(LabeledStatement("L", EmptyStatement)),
      BlockItemStatement(ReturnStatement(IntLiteralExpr(0)))>>)

\* { s }
BodyWithoutLabel(s) == CompoundStatement(<<BlockItemStatement(s)>>)

IntFunction == CFunction(int_type, <<>>, FALSE)

\* int x;  int f(void) { ... }  int g(void) { ... }
CfgUnits ==
  {<<ToplevelDecl("", Decl("x", int_type, NoInitializer)),
     FunctionDef("f", IntFunction, <<>>, first),
     FunctionDef("g", IntFunction, <<>>, BodyWithLabel(s))>> :
     first \in {BodyWithLabel(EmptyStatement),
                BodyWithLabel(GotoStatement("L")),
                BodyWithoutLabel(ReturnStatement(IntLiteralExpr(0)))},
     s \in SimpleStatements \cup OneForm \cup TwoForms}

InitCfg == \E unit \in CfgUnits : InitToplevel(unit)

SpecCfg == InitCfg /\ [][NextToplevel]_vars

Emitted == pc = "done" /\ ~builder.aborted /\ ~builder.undefined

\* The functions with a body.
DefinedFunctions ==
  {g \in 1..Len(builder.globals) :
     builder.globals[g].t = "IR_FUNCTION" /\ builder.globals[g].defined}

AllBlocks ==
  UNION {{builder.globals[g].blocks[k] :
            k \in 1..Len(builder.globals[g].blocks)} : g \in DefinedFunctions}

TerminatorsAt(block) ==
  {k \in 1..Len(builder.pool[block].instrs) :
     builder.pool[block].instrs[k].op \in Terminators}

\* C1: every block of every emitted function holds exactly one terminator
\* (ret, ret_void, branch or cond), and it is the last instruction of the
\* block.
C1_OneTerminatorLast ==
  Emitted =>
    \A block \in AllBlocks :
      TerminatorsAt(block) = {Len(builder.pool[block].instrs)}
        /\ builder.pool[block].instrs # <<>>

\* Every block of every emitted function ends in a terminator.
EndsInTerminator ==
  Emitted =>
    \A block \in AllBlocks :
      /\ builder.pool[block].instrs # <<>>
      /\ Last(builder.pool[block].instrs).op \in Terminators

\* The function whose layout holds the block.
FunctionOf(block) ==
  CHOOSE g \in DefinedFunctions :
    \E k \in 1..Len(builder.globals[g].blocks) :
      builder.globals[g].blocks[k] = block

BlocksOf(g) ==
  {builder.globals[g].blocks[k] : k \in 1..Len(builder.globals[g].blocks)}

\* C2: after the fixup pass the branch of every goto targets the block of
\* a label of the goto's name in the function that holds the goto.
C2_GotoTargetsOwnFunction ==
  Emitted =>
    \A i \in 1..Len(env.goto_fixups) :
      LET fixup == env.goto_fixups[i]
          target == builder.pool[fixup.instr[1]].instrs[fixup.instr[2]]
                      .targets[1]
      IN  /\ target \in BlocksOf(FunctionOf(fixup.instr[1]))
          /\ builder.pool[target].name = fixup.label_name

-----------------------------------------------------------------------------
(* Running the IR: a machine that executes one function of the translation *)
(* unit, one instruction per step. Integers are taken in their signed      *)
(* reading; calls to functions without a body return any value.            *)

\* f with f[k] = v
Put(f, k, v) == [x \in DOMAIN f \cup {k} |-> IF x = k THEN v ELSE f[x]]

\* 2^n
RECURSIVE Pow2(_)
Pow2(n) == IF n = 0 THEN 1 ELSE 2 * Pow2(n - 1)

\* The value v cut down to the low w bits, read as a signed integer.
Truncate(v, w) ==
  IF w >= 32 THEN v
  ELSE ((v + Pow2(w - 1)) % Pow2(w)) - Pow2(w - 1)

\* The w-bit signed integer v read as an unsigned one.
ZeroExtend(v, w) == IF v < 0 /\ w < 32 THEN v + Pow2(w) ELSE v

\* What an operand of an instruction denotes in the running machine.
Operand(m, v) ==
  CASE v.t = "IR_VALUE_CONST" -> v.u
    [] v.t = "IR_VALUE_ARG" -> m.argv[v.u + 1]
    [] v.t = "IR_VALUE_INSTR" -> m.regs[v.u]
    [] v.t = "IR_VALUE_GLOBAL" -> v.u

\* The values a function without a body may return, and that arguments take.
MachineValues == {0, 2}

\* The machine at the entry of the function global g, called with argv.
StartMachine(g, argv) ==
  [running |-> TRUE, done |-> FALSE, stuck |-> FALSE,
   block |-> builder.globals[g].blocks[1], index |-> 1, prev |-> 0,
   argv |-> argv, regs |-> <<>>, mem |-> <<>>, executed |-> {},
   trace |-> <<>>, result |-> 0]

\* The machine after the instruction instr at id, a call returning ret.
Execute(m, id, instr, ret) ==
  LET m1 == [m EXCEPT !.executed = @ \cup {id}, !.index = @ + 1]
      arg(k) == Operand(m, instr.args[k])
      Set(v) == [m1 EXCEPT !.regs = Put(@, id, v)]
      Jump(target) == [m1 EXCEPT !.prev = m.block, !.block = target,
                                 !.index = 1]
      sources == {k \in 1..Len(instr.targets) : instr.targets[k] = m.prev}
  IN  CASE instr.op = "OP_LOCAL" -> Set(id)
        [] instr.op = "OP_STORE" ->
             [m1 EXCEPT !.mem = Put(@, arg(1), arg(2))]
        [] instr.op = "OP_LOAD" ->
             IF arg(1) \in DOMAIN m.mem THEN Set(m.mem[arg(1)])
             ELSE [m1 EXCEPT !.stuck = TRUE]
        [] instr.op = "OP_CALL" ->
             [Set(ret) EXCEPT !.trace = Append(@, <<arg(1), ret>>)]
        [] instr.op = "OP_CMP" ->
             Set(IF (arg(1) = arg(2)) = (instr.u = "CMP_EQ") THEN 1 ELSE 0)
        [] instr.op = "OP_TRUNC" -> Set(Truncate(arg(1), instr.type.bit_width))
        [] instr.op = "OP_SEXT" -> Set(arg(1))
        [] instr.op = "OP_ZEXT" ->
             Set(ZeroExtend(arg(1), instr.args[1].type.bit_width))
        [] instr.op = "OP_CAST" -> Set(arg(1))
        [] instr.op = "OP_PHI" ->
             IF sources = {} THEN [m1 EXCEPT !.stuck = TRUE]
             ELSE Set(arg(SetMin(sources)))
        [] instr.op = "OP_BRANCH" -> Jump(instr.targets[1])
        [] instr.op = "OP_COND" ->
             Jump(IF arg(1) # 0 THEN instr.targets[1] ELSE instr.targets[2])
        [] instr.op = "OP_RET" -> [m1 EXCEPT !.done = TRUE, !.result = arg(1)]
        [] instr.op = "OP_RET_VOID" -> [m1 EXCEPT !.done = TRUE]
        [] OTHER -> [m1 EXCEPT !.stuck = TRUE]

\* The emitted function t is called with some arguments.
Call ==
  /\ pc = "done"
  /\ ~builder.aborted /\ ~builder.undefined
  /\ ~machine.running
  /\ GlobalNamed(builder, "t") # 0
  /\ \E argv \in SeqOfLen(MachineValues,
                          Len(builder.globals[GlobalNamed(builder, "t")]
                                .arg_types)) :
       machine' = StartMachine(GlobalNamed(builder, "t"), argv)
  /\ UNCHANGED <<builder, env, pc, input, out>>

\* The machine executes the next instruction.
Step ==
  /\ machine.running /\ ~machine.done /\ ~machine.stuck
  /\ machine.index <= Len(builder.pool[machine.block].instrs)
  /\ LET id == <<machine.block, machine.index>>
         instr == builder.pool[machine.block].instrs[machine.index]
     IN  \E ret \in (IF instr.op = "OP_CALL" THEN MachineValues ELSE {0}) :
           machine' = Execute(machine, id, instr, ret)
  /\ UNCHANGED <<builder, env, pc, input, out>>

-----------------------------------------------------------------------------
(* Short-circuit and conditional expressions: translation units            *)
(*   int a(void);  int b(void);  int t(char c, long l) { return E; }       *)
(* where E nests &&, || and ?: over c, l, a() and b(); t is then run.      *)

long_type == CInt("LONG", TRUE)

NoArgs == <<>>

CallOf(name) == FunctionCallExpr(IdentifierExpr(name), NoArgs)

Leaves ==
  {IdentifierExpr("c"), IdentifierExpr("l"), CallOf("a"), CallOf("b")}

\* The operators &&, || and ?: over operands from S.
Combine(S) ==
  {BinaryExpr(op, x, y) :
     op \in {"LOGICAL_AND_EXPR", "LOGICAL_OR_EXPR"}, x \in S, y \in S}
    \cup {ConditionalExpr(x, y, z) : x \in S, y \in S, z \in S}

\* Operands that are themselves short-circuit or conditional expressions.
NestedOperands ==
  {BinaryExpr("LOGICAL_AND_EXPR", CallOf("a"), CallOf("b")),
   BinaryExpr("LOGICAL_OR_EXPR", IdentifierExpr("c"), CallOf("a")),
   ConditionalExpr(IdentifierExpr("c"), IdentifierExpr("c"),
                   IdentifierExpr("l"))}

ExprFamily ==
  Combine(Leaves)
    \cup Combine(NestedOperands \cup {IdentifierExpr("c"), CallOf("a")})

ExprUnit(expr) ==
  <<ToplevelDecl("", Decl("a", IntFunction, NoInitializer)),
    ToplevelDecl("", Decl("b", IntFunction, NoInitializer)),
    FunctionDef("t", CFunction(int_type, <<char_type, long_type>>, FALSE),
                <<"c", "l">>,
                CompoundStatement(
                  <<BlockItemStatement(ReturnStatement(expr))>>))>>

\* The expression that the unit being compiled returns from t.
ReturnedExpr == out.unit[3].body.block_item_list[1].statement.expr

InitExpr == \E expr \in ExprFamily : InitToplevel(ExprUnit(expr))

NextExpr == NextToplevel \/ Call \/ Step

SpecExpr == InitExpr /\ [][NextExpr]_vars

\* The blocks of the emitted function t, in layout order.
BlocksOfT == builder.globals[GlobalNamed(builder, "t")].blocks

\* The positions <<block, index>> of the phis of t.
PhisOfT ==
  {id \in UNION {{<<BlocksOfT[k], i>> :
                    i \in 1..Len(builder.pool[BlocksOfT[k]].instrs)} :
                 k \in 1..Len(BlocksOfT)} :
     builder.pool[id[1]].instrs[id[2]].op = "OP_PHI"}

\* The blocks whose last instruction is a branch or cond to block.
BranchingTo(block) ==
  {BlocksOfT[k] : k \in
     {k \in 1..Len(BlocksOfT) :
        LET instrs == builder.pool[BlocksOfT[k]].instrs
        IN  /\ instrs # <<>>
            /\ Last(instrs).op \in {"OP_BRANCH", "OP_COND"}
            /\ \E j \in 1..Len(Last(instrs).targets) :
                 Last(instrs).targets[j] = block}}

PhiAt(id) == builder.pool[id[1]].instrs[id[2]]

\* The predecessors a phi records are the blocks that branch to its block.
PhiPredecessorsMatch ==
  Emitted =>
    \A id \in PhisOfT :
      {PhiAt(id).targets[k] : k \in 1..Len(PhiAt(id).targets)}
        = BranchingTo(id[1])

\* C3: every phi built for &&, || and ?: records as predecessors exactly the
\* blocks that end in a branch or cond to its block, and each of its
\* incoming values has the IR type of the phi, nested operands included.
C3_PhiWellFormed ==
  /\ PhiPredecessorsMatch
  /\ Emitted =>
       \A id \in PhisOfT :
         \A k \in 1..Len(PhiAt(id).args) :
           PhiAt(id).args[k].type = PhiAt(id).type

\* What C gives for an expression of the family when t is called with argv
\* and the calls of a and b return what the trace records from position
\* k + 1 on: the value v, the position k after the last call consumed, and
\* ok, whether the trace had those calls in that order.
RECURSIVE CEval(_, _, _, _)
CEval(expr, argv, trace, k) ==
  CASE expr.t = "IDENTIFIER_EXPR" ->
         [v |-> IF expr.identifier = "c" THEN argv[1] ELSE argv[2],
          k |-> k, ok |-> TRUE]
    [] expr.t = "FUNCTION_CALL_EXPR" ->
         IF k < Len(trace) /\ trace[k + 1][1] = expr.callee.identifier
           THEN [v |-> trace[k + 1][2], k |-> k + 1, ok |-> TRUE]
           ELSE [v |-> 0, k |-> k, ok |-> FALSE]
    [] expr.t \in {"LOGICAL_AND_EXPR", "LOGICAL_OR_EXPR"} ->
         LET lhs == CEval(expr.arg1, argv, trace, k)
             decided == (lhs.v # 0) = (expr.t = "LOGICAL_OR_EXPR")
             rhs == CEval(expr.arg2, argv, trace, lhs.k)
         IN  IF ~lhs.ok THEN lhs
             ELSE IF decided
               THEN [lhs EXCEPT !.v = IF lhs.v # 0 THEN 1 ELSE 0]
             ELSE [rhs EXCEPT !.v = IF rhs.v # 0 THEN 1 ELSE 0]
    [] expr.t = "CONDITIONAL_EXPR" ->
         LET cond == CEval(expr.arg1, argv, trace, k)
         IN  IF ~cond.ok THEN cond
             ELSE IF cond.v # 0 THEN CEval(expr.arg2, argv, trace, cond.k)
             ELSE CEval(expr.arg3, argv, trace, cond.k)

\* The blocks a block can continue in.
Successors(block) ==
  UNION {{builder.pool[block].instrs[i].targets[j] :
            j \in 1..Len(builder.pool[block].instrs[i].targets)} :
         i \in {i \in 1..Len(builder.pool[block].instrs) :
                  builder.pool[block].instrs[i].op
                    \in {"OP_BRANCH", "OP_COND"}}}

\* The blocks reached from the blocks in seen without entering stop.
RECURSIVE ReachableBefore(_, _)
ReachableBefore(seen, stop) ==
  LET more == (UNION {Successors(block) : block \in seen}) \ {stop}
  IN  IF more \subseteq seen THEN seen
      ELSE ReachableBefore(seen \cup more, stop)

\* The blocks that hold the instructions of the right operand of the
\* expression t returns: those from its rhs block up to its after block.
RhsBlocks == ReachableBefore({BlocksOfT[2]}, BlocksOfT[3])

\* t has returned from a call, and it returns an expression a && b or a || b.
ReturnedLogical ==
  /\ machine.running /\ machine.done
  /\ ReturnedExpr.t \in {"LOGICAL_AND_EXPR", "LOGICAL_OR_EXPR"}

\* The left operand alone decides the value: zero for &&, non-zero for ||.
LhsDecides ==
  LET lhs == CEval(ReturnedExpr.arg1, machine.argv, machine.trace, 0)
  IN  (lhs.v # 0) = (ReturnedExpr.t = "LOGICAL_OR_EXPR")

\* C4: when a && b has run, a was evaluated first; if a was zero the value
\* is 0 and no instruction of b was executed, otherwise the value is
\* (b != 0). For a || b the value is 1 without any instruction of b when a
\* was non-zero, otherwise it is (b != 0).
C4_ShortCircuit ==
  ReturnedLogical =>
    LET is_or == ReturnedExpr.t = "LOGICAL_OR_EXPR"
        lhs == CEval(ReturnedExpr.arg1, machine.argv, machine.trace, 0)
        rhs == CEval(ReturnedExpr.arg2, machine.argv, machine.trace, lhs.k)
    IN  /\ lhs.ok
        /\ IF LhsDecides
             THEN /\ machine.result = (IF is_or THEN 1 ELSE 0)
                  /\ lhs.k = Len(machine.trace)
                  /\ \A id \in machine.executed : id[1] \notin RhsBlocks
             ELSE /\ rhs.ok
                  /\ rhs.k = Len(machine.trace)
                  /\ machine.result = (IF rhs.v # 0 THEN 1 ELSE 0)
                  /\ \E id \in machine.executed : id[1] \in RhsBlocks

\* t returned a && b with a zero, where b is itself a short-circuit
\* expression with calls, so that b has blocks and calls of its own.
C4_Witness ==
  /\ ReturnedLogical
  /\ ReturnedExpr.t = "LOGICAL_AND_EXPR"
  /\ LhsDecides
  /\ ReturnedExpr.arg2.t = "LOGICAL_AND_EXPR"
  /\ ReturnedExpr.arg1.t = "FUNCTION_CALL_EXPR"
  /\ Len(machine.trace) = 1

-----------------------------------------------------------------------------
(* Calling convention: translation units that declare globals x1, x2, ...  *)
(* and r, define R f(P1 p1, P2 p2, ...) { return r; } and a caller         *)
(* void g(void) { f(x1, x2, ...); }, with and without a prototype of f     *)
(* and with the caller before and after the definition of f.               *)

MaxParams == 2

StructS ==
  struct_specifier_to_c_type(
    "S", <<CDecl("i", int_type), CDecl("c", char_type)>>, TRUE, FALSE)

AbiParamTypes == {int_type, char_type, StructS, CPointer(char_type)}

AbiReturnTypes == AbiParamTypes \cup {void_type}

AbiFunctionTypes ==
  {CFunction(ret, params, FALSE) :
     ret \in AbiReturnTypes, params \in SeqsUpTo(AbiParamTypes, MaxParams)}

ParamName(i) == <<"p1", "p2", "p3", "p4">>[i]

ArgGlobal(i) == <<"x1", "x2", "x3", "x4">>[i]

\* The type of the global passed for a parameter: a char for an int
\* parameter, so that the argument is converted; else the parameter type.
ArgGlobalType(param_type) ==
  IF param_type = int_type THEN char_type ELSE param_type

AbiGlobals(type) ==
  [i \in 1..type.arity |->
     ToplevelDecl("", Decl(ArgGlobal(i), ArgGlobalType(type.arg_type_array[i]),
                           NoInitializer))]
    \o (IF type.return_type = void_type THEN <<>>
        ELSE <<ToplevelDecl("", Decl("r", type.return_type, NoInitializer))>>)

AbiCallee(type) ==
  FunctionDef("f", type, [i \in 1..type.arity |-> ParamName(i)],
              CompoundStatement(
                <<BlockItemStatement(
                    ReturnStatement(IF type.return_type = void_type
                                      THEN NoExpr
                                      ELSE IdentifierExpr("r")))>>))

AbiCaller(type) ==
  FunctionDef("g", CFunction(void_type, <<>>, FALSE), <<>>,
              CompoundStatement(
                <<BlockItemStatement(
                    ExprStatement(
                      FunctionCallExpr(
                        IdentifierExpr("f"),
                        [i \in 1..type.arity |->
                           IdentifierExpr(ArgGlobal(i))])))>>))

AbiPrototype(type) == ToplevelDecl("", Decl("f", type, NoInitializer))

AbiUnits ==
  UNION {{AbiGlobals(type) \o <<AbiCallee(type), AbiCaller(type)>>,
          AbiGlobals(type)
            \o <<AbiPrototype(type), AbiCallee(type), AbiCaller(type)>>,
          AbiGlobals(type)
            \o <<AbiPrototype(type), AbiCaller(type), AbiCallee(type)>>} :
         type \in AbiFunctionTypes}

InitAbi == \E unit \in AbiUnits : InitToplevel(unit)

SpecAbi == InitAbi /\ [][NextToplevel]_vars

\* The C type of f in the unit being compiled.
TypeOfF ==
  LET defs == {i \in 1..Len(out.unit) :
                 out.unit[i].t = "FUNCTION_DEF" /\ out.unit[i].name = "f"}
  IN  out.unit[SetMin(defs)].type

\* The number of IR arguments before the one of the first C parameter.
Shift == IF TypeOfF.return_type.t = "STRUCT_TYPE" THEN 1 ELSE 0

\* The instructions of all the blocks of the function named name, in order.
RECURSIVE InstrsFrom(_, _)
InstrsFrom(blocks, k) ==
  IF k > Len(blocks) THEN <<>>
  ELSE builder.pool[blocks[k]].instrs \o InstrsFrom(blocks, k + 1)

InstrsOf(name) ==
  InstrsFrom(builder.globals[GlobalNamed(builder, name)].blocks, 1)

IsMemcpy(instr) == instr.op = "OP_CALL" /\ instr.args[1] = builtin_memcpy

\* The IR argument an instruction copies into memory, if it copies one:
\* the value of a store, the source of a memcpy.
CopiedArg(instr) ==
  IF instr.op = "OP_STORE" THEN instr.args[2]
  ELSE IF IsMemcpy(instr) THEN instr.args[3]
  ELSE value_const(IrVoid, 0)

\* Where an instruction copies to: the pointer of a store, the destination
\* of a memcpy.
CopyTarget(instr) == IF instr.op = "OP_STORE" THEN instr.args[1] ELSE instr.args[2]

\* The copies of IR arguments into locals that f makes, in order.
ParamCopies ==
  SelectSeq(InstrsOf("f"), LAMBDA instr : CopiedArg(instr).t = "IR_VALUE_ARG")

\* The instruction of the function named name that yields the value v.
InstrOfValue(v) == builder.pool[v.u[1]].instrs[v.u[2]]

\* The global an argument of a call was read from, through the load and
\* the conversion that follow the read.
RECURSIVE Origin(_)
Origin(v) ==
  IF v.t = "IR_VALUE_GLOBAL" THEN v.u
  ELSE IF v.t = "IR_VALUE_INSTR"
          /\ InstrOfValue(v).op \in {"OP_LOAD", "OP_SEXT", "OP_TRUNC"}
    THEN Origin(InstrOfValue(v).args[1])
  ELSE ""

\* The calls of f in g.
CallsOfF ==
  SelectSeq(InstrsOf("g"),
            LAMBDA instr : instr.op = "OP_CALL"
                             /\ instr.args[1] = value_global("f"))

\* The IR declaration of f: void and a leading pointer for a struct return.
DeclarationAgrees ==
  LET global == builder.globals[GlobalNamed(builder, "f")]
      params == [i \in 1..TypeOfF.arity |->
                   c_type_to_ir_type(TypeOfF.arg_type_array[i])]
  IN  IF Shift = 1
        THEN global.return_type = IrVoid
             /\ global.arg_types = <<IrPointer>> \o params
        ELSE global.return_type = c_type_to_ir_type(TypeOfF.return_type)
             /\ global.arg_types = params

\* f copies the IR argument i + Shift into the local of its C parameter i.
CalleeStoresAgree ==
  /\ Len(ParamCopies) = TypeOfF.arity
  /\ \A i \in 1..TypeOfF.arity :
       /\ CopiedArg(ParamCopies[i]).u = i - 1 + Shift
       /\ CopyTarget(ParamCopies[i]).t = "IR_VALUE_INSTR"
       /\ InstrOfValue(CopyTarget(ParamCopies[i])).op = "OP_LOCAL"
       /\ InstrOfValue(CopyTarget(ParamCopies[i])).u
            = c_type_to_ir_type(TypeOfF.arg_type_array[i])
       /\ \A j \in 1..(i - 1) :
            CopyTarget(ParamCopies[j]) # CopyTarget(ParamCopies[i])

\* f returns a struct by copying it to the IR argument 0 and ret_void.
CalleeReturnAgrees ==
  LET instrs == InstrsOf("f")
      copies_out == {k \in 1..Len(instrs) :
                       IsMemcpy(instrs[k])
                         /\ instrs[k].args[2] = value_arg(0, IrPointer)}
  IN  IF Shift = 1
        THEN /\ \A k \in 1..Len(instrs) : instrs[k].op # "OP_RET"
             /\ \E k \in copies_out :
                  /\ Origin(instrs[k].args[3]) = "r"
                  /\ instrs[k + 1].op = "OP_RET_VOID"
        ELSE /\ copies_out = {}
             /\ TypeOfF.return_type # void_type =>
                  \E k \in 1..Len(instrs) :
                    instrs[k].op = "OP_RET" /\ Origin(instrs[k].args[1]) = "r"

\* The call in g passes the C argument i as IR argument i + Shift, and a
\* local of its own as IR argument 0 when f returns a struct.
CallSiteAgrees ==
  /\ Len(CallsOfF) = 1
  /\ LET call == CallsOfF[1]
     IN  /\ Len(call.args) = 1 + Shift + TypeOfF.arity
         /\ \A i \in 1..TypeOfF.arity :
              Origin(call.args[1 + Shift + i]) = ArgGlobal(i)
         /\ IF Shift = 1
              THEN /\ call.type = IrVoid
                   /\ call.args[2].t = "IR_VALUE_INSTR"
                   /\ InstrOfValue(call.args[2]).op = "OP_LOCAL"
                   /\ InstrOfValue(call.args[2]).u
                        = c_type_to_ir_type(TypeOfF.return_type)
              ELSE call.type = c_type_to_ir_type(TypeOfF.return_type)

\* C5: the IR declaration of f, the parameter stores of f, its return and
\* the call site agree: when f returns a struct the C parameter i is the IR
\* argument i + 1 and the IR argument 0 is the result slot the caller
\* allocates; otherwise the C parameter i is the IR argument i.
C5_StructReturnShift ==
  Emitted =>
    /\ DeclarationAgrees
    /\ CalleeStoresAgree
    /\ CalleeReturnAgrees
    /\ CallSiteAgrees

\* A unit was emitted in which f returns a struct and takes two parameters,
\* a struct among them, and is called before it is defined.
C5_Witness ==
  /\ Emitted
  /\ Shift = 1
  /\ TypeOfF.arity = 2
  /\ TypeOfF.arg_type_array[2] = StructS
  /\ TypeOfF.arg_type_array[1] = int_type
  /\ Last(out.unit).name = "f"

-----------------------------------------------------------------------------
(* Initializers: translation units                                         *)
(*   void h(void) { T a = init; }   T g = init;                            *)
(* that initialize an automatic object and a global with the same          *)
(* initializer, for arrays, arrays of arrays and structs.                  *)

MaxElems == 2

LeafValues == {1, 258}

IntRow == array_type(int_type, MaxElems)

StructP ==
  struct_specifier_to_c_type(
    "P", <<CDecl("c", char_type), CDecl("i", int_type)>>, TRUE, FALSE)

StructQ ==
  struct_specifier_to_c_type(
    "Q", <<CDecl("a", IntRow), CDecl("z", char_type)>>, TRUE, FALSE)

StructR ==
  struct_specifier_to_c_type(
    "R", <<CDecl("p", StructP), CDecl("k", int_type)>>, TRUE, FALSE)

InitTypes ==
  {IntRow, array_type(char_type, MaxElems), array_type(IntRow, MaxElems),
   StructP, StructQ, StructR, array_type(StructP, MaxElems)}

\* The type of element or field i (from 1) of an aggregate type.
ElemType(type, i) ==
  IF type.t = "ARRAY_TYPE" THEN type.elem_type ELSE type.fields[i].type

\* The designator of element or field i (from 1) of an aggregate type.
DesignatorOf(type, i) ==
  IF type.t = "ARRAY_TYPE" THEN IndexDesignator(IntLiteralExpr(i - 1))
  ELSE FieldDesignator(type.fields[i].name)

\* The initializers tried for a type: a literal for an integer; for an
\* aggregate the brace lists that give its first k elements in order, and
\* those that designate one element.
RECURSIVE InitsOf(_)
InitsOf(type) ==
  IF type.t = "INTEGER_TYPE"
    THEN {ExprInitializer(IntLiteralExpr(v)) : v \in LeafValues}
  ELSE
    LET n == c_type_num_fields(type)
        any == UNION {InitsOf(ElemType(type, i)) : i \in 1..n}
        positional ==
          UNION {{BraceInitializer(
                    [i \in 1..k |-> InitializerElement(<<>>, seq[i])]) :
                  seq \in {q \in SeqOfLen(any, k) :
                             \A i \in 1..k :
                               q[i] \in InitsOf(ElemType(type, i))}} :
                 k \in 1..n}
        designated ==
          UNION {{BraceInitializer(
                    <<InitializerElement(<<DesignatorOf(type, i)>>, x)>>) :
                  x \in InitsOf(ElemType(type, i))} : i \in 1..n}
    IN  positional \cup designated

InitUnit(type, init) ==
  <<FunctionDef("h", CFunction(void_type, <<>>, FALSE), <<>>,
                CompoundStatement(<<BlockItemDecl(Decl("a", type, init))>>)),
    ToplevelDecl("", Decl("g", type, init))>>

InitInit ==
  \E type \in InitTypes :
    \E init \in InitsOf(type) : InitToplevel(InitUnit(type, init))

SpecInit == InitInit /\ [][NextToplevel]_vars

\* The type that the unit being compiled initializes.
InitializedType == out.unit[2].decl.type

\* A byte that nothing has written.
Unwritten == -1

\* The bytes a constant describes: integers little-endian, the elements of
\* an array one after the other, the fields of a struct at their offsets
\* with zero between them.
RECURSIVE ConstBytes(_)
ConstBytes(konst) ==
  IF "integer" \in DOMAIN konst
    THEN ToBytes(konst.integer, konst.type.bit_width \div 8)
  ELSE IF "array_elems" \in DOMAIN konst
    THEN Concat([i \in 1..Len(konst.array_elems) |->
                   ConstBytes(konst.array_elems[i])])
  ELSE IF "struct_fields" \in DOMAIN konst
    THEN [at \in 1..konst.type.total_size |->
            LET covering ==
                  {i \in 1..Len(konst.struct_fields) :
                     /\ konst.type.fields[i].offset < at
                     /\ at <= konst.type.fields[i].offset
                                + size_of_ir_type(konst.type.fields[i].type)}
            IN  IF covering = {} THEN 0
                ELSE ConstBytes(konst.struct_fields[SetMin(covering)])
                       [at - konst.type.fields[SetMin(covering)].offset]]
  ELSE <<>>

\* The offset into the local of h that a pointer value denotes.
RECURSIVE OffsetOf(_)
OffsetOf(v) ==
  IF v.t = "IR_VALUE_CONST" THEN v.u
  ELSE LET instr == InstrOfValue(v)
       IN  CASE instr.op = "OP_LOCAL" -> 0
             [] instr.op = "OP_CAST" -> OffsetOf(instr.args[1])
             [] instr.op = "OP_ADD" ->
                  OffsetOf(instr.args[1]) + OffsetOf(instr.args[2])

\* The bytes of the local after the instructions k.. of instrs, image being
\* its bytes before them.
RECURSIVE RunStores(_, _, _)
RunStores(instrs, k, image) ==
  IF k > Len(instrs) THEN image
  ELSE
    LET instr == instrs[k]
        written ==
          IF instr.op = "OP_CALL" /\ instr.args[1] = builtin_memset
            THEN [at \in 1..Len(image) |->
                    IF /\ OffsetOf(instr.args[2]) < at
                       /\ at <= OffsetOf(instr.args[2]) + instr.args[4].u
                      THEN instr.args[3].u ELSE image[at]]
          ELSE IF instr.op = "OP_STORE"
            THEN LET bytes == EvalValue(builder, <<>>, instr.args[2])
                     offset == OffsetOf(instr.args[1])
                 IN  [at \in 1..Len(image) |->
                        IF offset < at /\ at <= offset + Len(bytes)
                          THEN bytes[at - offset] ELSE image[at]]
          ELSE image
    IN  RunStores(instrs, k + 1, written)

\* The bytes (from 1) of an object of the type at base that belong to an
\* integer member; the others are padding.
RECURSIVE MemberBytes(_, _)
MemberBytes(type, base) ==
  IF type.t = "ARRAY_TYPE"
    THEN UNION {MemberBytes(type.elem_type,
                            base + (i - 1) * c_type_size(type.elem_type)) :
                i \in 1..type.size}
  ELSE IF type.t = "STRUCT_TYPE"
    THEN UNION {MemberBytes(type.fields[i].type,
                            base + type.ir_type.fields[i].offset) :
                i \in 1..Len(type.fields)}
  ELSE (base + 1)..(base + c_type_size(type))

\* The bytes of the local a of h once h has run.
AutoImage ==
  RunStores(InstrsOf("h"), 1,
            [at \in 1..c_type_size(InitializedType) |-> Unwritten])

\* The bytes that the initializer of the global g describes.
ConstImage ==
  ConstBytes(builder.globals[GlobalNamed(builder, "g")].initializer)

\* Both declarations have been lowered and no assertion has rejected them.
BothLowered == input = <<>> /\ ~builder.aborted

\* The constant of g was built and has the bytes of a in every member.
SameMembers ==
  /\ Len(ConstImage) = c_type_size(InitializedType)
  /\ \A at \in MemberBytes(InitializedType, 0) : ConstImage[at] = AutoImage[at]

\* C10: for a type and an initializer that neither path rejects, the
\* constant built for the global describes the bytes that the automatic
\* path writes (memset to zero unless the initializer is full, then the
\* stores at the layout offsets), partially initialized nested arrays and
\* structs included.
C10_SameByteImage == BothLowered => ~builder.undefined /\ SameMembers

\* Where the constant was built, it has the bytes of the automatic object.
SameImageWhereBuilt == BothLowered /\ ~builder.undefined => SameMembers

\* The automatic path leaves no member byte unwritten.
AutoWritesMembers ==
  BothLowered =>
    \A at \in MemberBytes(InitializedType, 0) : AutoImage[at] # Unwritten

-----------------------------------------------------------------------------
(* Array sizes: infer_array_size_from_initializer applied to a type and an *)
(* initializer: none, a string literal, another expression, or a brace     *)
(* list whose elements carry an index designator, a field designator or    *)
(* no designator.                                                          *)

\* The longest brace list and string literal.
MaxInferElems == 3

\* The largest index a designator names.
MaxIndex == 2

InferDesignators ==
  {<<>>, <<FieldDesignator("x")>>}
    \cup {<<IndexDesignator(IntLiteralExpr(k))>> : k \in 0..MaxIndex}

InferElems ==
  {InitializerElement(d, ExprInitializer(IntLiteralExpr(1))) :
     d \in InferDesignators}

InferInits ==
  {NoInitializer, ExprInitializer(IntLiteralExpr(1))}
    \cup {ExprInitializer(StringLiteralExpr(chars)) :
            chars \in SeqsUpTo({97}, MaxInferElems)}
    \cup {BraceInitializer(elems) : elems \in SeqsUpTo(InferElems, MaxInferElems)}

InferTypes ==
  {int_type, array_type(int_type, 2), incomplete_array_type(int_type),
   incomplete_array_type(char_type),
   incomplete_array_type(array_type(int_type, 2))}

InitInfer ==
  /\ input \in [type : InferTypes, init : InferInits]
  /\ builder = ToplevelBuilder
  /\ env = InitEnv
  /\ pc = "infer"
  /\ machine = NoMachine
  /\ out = [type |-> input.type]

\* The type of a declared object is inferred from its initializer.
InferArraySize ==
  /\ pc = "infer"
  /\ LET Inferred(r) == builder' = r.b /\ out' = [type |-> r.type]
     IN  Inferred(infer_array_size_from_initializer(builder, env, input.init,
                                                    input.type))
  /\ pc' = "inferred"
  /\ UNCHANGED <<env, machine, input>>

SpecInfer == InitInfer /\ [][InferArraySize]_vars

\* The position of each element of a brace list: the index its designator
\* names, or one past the position of the element before it, from 0.
RECURSIVE Positions(_)
Positions(elems) ==
  IF elems = <<>> THEN <<>>
  ELSE LET before == Positions(SubSeq(elems, 1, Len(elems) - 1))
           d == Last(elems).designator_list
       IN  Append(before,
                  IF d # <<>> THEN d[1].index_expr.value
                  ELSE IF before = <<>> THEN 0
                  ELSE Last(before) + 1)

\* The greatest of the positions of a brace list that has an element.
MaxPosition(elems) ==
  CHOOSE m \in {Positions(elems)[i] : i \in 1..Len(elems)} :
    \A i \in 1..Len(elems) : Positions(elems)[i] <= m

\* The inference has run and no assertion has rejected its input.
InferAccepted == pc = "inferred" /\ ~Stopped(builder)

\* The inferred type is the array of the same elements with this length.
CompletedTo(length) ==
  /\ out.type.t = "ARRAY_TYPE"
  /\ ~out.type.incomplete
  /\ out.type.elem_type = input.type.elem_type
  /\ out.type.size = length

IsIncompleteArray(type) == type.t = "ARRAY_TYPE" /\ type.incomplete

\* C11: an array of unknown length with an initializer is completed to the
\* greatest element position plus one for a brace list (an element's
\* position is the index of its designator, or else one past the previous
\* position, from 0) and to the string's length plus one for a string
\* literal; a type that is no array of unknown length, or has no
\* initializer, is left as it is.
C11_ArraySizeInferred ==
  InferAccepted =>
    IF IsIncompleteArray(input.type) /\ input.init # NoInitializer
      THEN IF input.init.t = "BRACE_INITIALIZER"
             THEN input.init.initializer_element_list # <<>> =>
                    CompletedTo(MaxPosition(input.init.initializer_element_list) + 1)
             ELSE CompletedTo(Len(input.init.expr.chars) + 1)
      ELSE out.type = input.type

\* A brace list { [MaxIndex] = 1, 1 } completed an array to MaxIndex + 2.
C11_Witness ==
  /\ InferAccepted
  /\ IsIncompleteArray(input.type)
  /\ input.init.t = "BRACE_INITIALIZER"
  /\ Len(input.init.initializer_element_list) = 2
  /\ input.init.initializer_element_list[2].designator_list = <<>>
  /\ out.type.size = MaxIndex + 2

-----------------------------------------------------------------------------
(* Switch statements: translation units                                    *)
(*   int t(int p) { switch (p) { items } return 7; }                       *)
(* whose items are case and default labels over return, break and the      *)
(* empty statement; t is then run on a value of p.                         *)

\* The most items in the body of the switch.
MaxCases == 2

CaseStatement(value, statement) ==
  ExprAndStatement("CASE_STATEMENT", IntLiteralExpr(value), statement)

SwitchStatement(expr, statement) ==
  ExprAndStatement("SWITCH_STATEMENT", expr, statement)

\* What a label of the switch body labels.
SwitchLeaves(k) ==
  {ReturnStatement(IntLiteralExpr(10 + k)), BreakStatement, EmptyStatement}

SwitchItems ==
  UNION {{CaseStatement(k, s) : s \in SwitchLeaves(k)} : k \in MachineValues}
    \cup {LabeledStatement("default", s) : s \in SwitchLeaves(89)}
    \cup {CaseStatement(0, CaseStatement(2, ReturnStatement(IntLiteralExpr(30))))}

\* The bodies with at most one default label.
SwitchBodies ==
  {items \in SeqsUpTo(SwitchItems, MaxCases) :
     Cardinality({i \in 1..Len(items) :
                    items[i].t = "LABELED_STATEMENT"}) <= 1}

SwitchUnit(items) ==
  <<FunctionDef("t", CFunction(int_type, <<int_type>>, FALSE), <<"p">>,
                CompoundStatement(
                  <<BlockItemStatement(
                      SwitchStatement(
                        IdentifierExpr("p"),
                        CompoundStatement(
                          [i \in 1..Len(items) |->
                             BlockItemStatement(items[i])]))),
                    BlockItemStatement(
                      ReturnStatement(IntLiteralExpr(7)))>>))>>

InitSwitch == \E items \in SwitchBodies : InitToplevel(SwitchUnit(items))

NextSwitch == ToplevelFunctionDef \/ ToplevelEnd \/ Call \/ Step

SpecSwitch == InitSwitch /\ [][NextSwitch]_vars

\* The items of the switch that the unit being compiled holds, and the
\* statement after the switch.
SwitchBody ==
  LET list == out.unit[1].body.block_item_list[1].statement.statement
                .block_item_list
  IN  [i \in 1..Len(list) |-> list[i].statement]

AfterSwitch == out.unit[1].body.block_item_list[2].statement

\* The constants of the case labels on an item.
RECURSIVE CaseValues(_)
CaseValues(s) ==
  IF s.t = "CASE_STATEMENT" THEN {s.expr.value} \cup CaseValues(s.statement)
  ELSE {}

\* The statement under the labels of an item.
RECURSIVE LabeledBy(_)
LabeledBy(s) ==
  IF s.t \in {"CASE_STATEMENT", "LABELED_STATEMENT"} THEN LabeledBy(s.statement)
  ELSE s

\* The item that the value v selects: the first with a case of that
\* constant, else the one labeled default, else none (0).
SelectedItem(items, v) ==
  LET matching == {i \in 1..Len(items) : v \in CaseValues(items[i])}
      defaults == {i \in 1..Len(items) : items[i].t = "LABELED_STATEMENT"}
  IN  IF matching # {} THEN SetMin(matching)
      ELSE IF defaults # {} THEN SetMin(defaults)
      ELSE 0

\* What t returns when control enters the switch body at item i (after the
\* switch when i is 0): a return leaves t, a break leaves the switch, and
\* anything else falls through to the next item.
RECURSIVE ReturnedFrom(_, _)
ReturnedFrom(items, i) ==
  IF i = 0 \/ i > Len(items) THEN AfterSwitch.expr.value
  ELSE IF LabeledBy(items[i]).t = "RETURN_STATEMENT"
    THEN LabeledBy(items[i]).expr.value
  ELSE IF LabeledBy(items[i]).t = "BREAK_STATEMENT"
    THEN AfterSwitch.expr.value
  ELSE ReturnedFrom(items, i + 1)

\* t has been run to its return on the value of p.
SwitchRan == machine.running /\ machine.done

\* C12: the compare chain of a switch leads to the block of the first
\* tested case whose constant equals the switch value, to the block of
\* the default label when no case matches, and to switch.after when there
\* is no default either; a break in the body leads to switch.after. So t
\* never gets stuck and returns what the selected item returns.
C12_SwitchDispatch ==
  /\ machine.running => ~machine.stuck
  /\ SwitchRan =>
       machine.result
         = ReturnedFrom(SwitchBody, SelectedItem(SwitchBody, machine.argv[1]))

\* The second case matched after the first did not, and its return ran.
C12_Witness ==
  /\ SwitchRan
  /\ Len(SwitchBody) = 2
  /\ SwitchBody[1].t = "CASE_STATEMENT"
  /\ machine.argv[1] \notin CaseValues(SwitchBody[1])
  /\ machine.argv[1] \in CaseValues(SwitchBody[2])
  /\ LabeledBy(SwitchBody[2]).t = "RETURN_STATEMENT"
  /\ machine.result = 10 + machine.argv[1]

-----------------------------------------------------------------------------
(* Inline functions: translation units made of                             *)
(*   inline int f(void) { return 1; }    int g(void) { return 2; }         *)
(*   extern inline int f(void);          extern inline char f(void);       *)
(*   extern inline int g(void);          int x;                            *)
(* in any order.                                                           *)

\* The most items of a translation unit.
MaxItems == 3

ReturnBody(value) ==
  CompoundStatement(<<BlockItemStatement(ReturnStatement(IntLiteralExpr(value)))>>)

InlineFunctionDef(name, type, params, body) ==
  [FunctionDef(name, type, params, body) EXCEPT !.is_inline = TRUE]

InlineItems ==
  {InlineFunctionDef("f", IntFunction, <<>>, ReturnBody(1)),
   FunctionDef("g", IntFunction, <<>>, ReturnBody(2)),
   ToplevelDecl("extern inline", Decl("f", IntFunction, NoInitializer)),
   ToplevelDecl("extern inline",
                Decl("f", CFunction(char_type, <<>>, FALSE), NoInitializer)),
   ToplevelDecl("extern inline", Decl("g", IntFunction, NoInitializer)),
   ToplevelDecl("", Decl("x", int_type, NoInitializer))}

InitInline == \E unit \in SeqsUpTo(InlineItems, MaxItems) : InitToplevel(unit)

SpecInline == InitInline /\ [][NextToplevel]_vars

\* The items of the unit that have been processed.
Processed == SubSeq(out.unit, 1, Len(out.unit) - Len(input))

\* The function of that name has a body in the translation unit.
BodyEmitted(name) ==
  /\ GlobalNamed(builder, name) # 0
  /\ \E i \in 1..Len(builder.globals[GlobalNamed(builder, name)].blocks) :
       builder.pool[builder.globals[GlobalNamed(builder, name)].blocks[i]]
         .instrs # <<>>

\* A definition of the function without inline has been processed.
DefinedPlainly(name) ==
  \E i \in 1..Len(Processed) :
    /\ Processed[i].t = "FUNCTION_DEF"
    /\ Processed[i].name = name
    /\ ~Processed[i].is_inline

\* A definition of the function with inline has been processed, and after
\* it an extern inline declaration of the name with the same type.
Instantiated(name) ==
  \E i \in 1..Len(Processed), j \in 1..Len(Processed) :
    /\ i < j
    /\ Processed[i].t = "FUNCTION_DEF"
    /\ Processed[i].name = name
    /\ Processed[i].is_inline
    /\ Processed[j].t = "DECL"
    /\ Processed[j].storage = "extern inline"
    /\ Processed[j].decl.name = name
    /\ Processed[j].decl.type = Processed[i].type

\* C13: the body of a function defined with inline is emitted not at its
\* definition but when a later extern inline declaration of the same name
\* and type is processed; the body of a function defined without inline
\* is emitted at its definition.
C13_InlineBodyDeferred ==
  ~Stopped(builder) =>
    \A name \in {"f", "g"} :
      BodyEmitted(name) <=> DefinedPlainly(name) \/ Instantiated(name)

\* inline f, something else, then extern inline f: the body of f exists.
C13_Witness ==
  /\ ~Stopped(builder)
  /\ Len(Processed) = 3
  /\ Processed[1].t = "FUNCTION_DEF" /\ Processed[1].is_inline
  /\ Processed[2].t = "DECL" /\ Processed[2].storage = ""
  /\ Instantiated("f")
  /\ BodyEmitted("f")

-----------------------------------------------------------------------------
(* Statements in a function body: ir_gen_statement applied to a statement  *)
(* in the state in which ir_gen_function lowers the body of                *)
(*   int f(int p)                                                          *)
(* the first item of a translation unit.                                   *)

\* The builder and the environment after the prologue of ir_gen_function.
FunctionEntry ==
  LET type == CFunction(int_type, <<int_type>>, FALSE)
      Entered(g, b1, e1) ==
        ir_gen_params(b1, e1, g.global, g.ctype, <<"p">>, 1)
      Declared(g) ==
        Entered(g,
                [add_init_to_function(g.b, g.global) EXCEPT
                   !.current_function = g.global,
                   !.current_block = NewBlockId(g.b)],
                [BindGlobal(InitEnv, "f", g.ctype) EXCEPT
                   !.scope = Append(@, <<>>),
                   !.current_function_type = g.ctype])
  IN  Declared(ir_global_for_decl(ToplevelBuilder, InitEnv,
                                  Decl("f", type, NoInitializer)))

\* The builder and the environment are those of the function entry.
AtFunctionEntry ==
  LET At(entry) == builder = entry.b /\ env = entry.e
  IN  At(FunctionEntry)

InitStatement(statement) ==
  /\ AtFunctionEntry
  /\ pc = "statement"
  /\ machine = NoMachine
  /\ input = statement
  /\ out = [b |-> builder, e |-> env]

\* The statement is lowered.
LowerStatement ==
  /\ pc = "statement"
  /\ LET Lowered(r) == builder' = r.b /\ env' = r.e
     IN  Lowered(ir_gen("statement", builder, env, input, ""))
  /\ pc' = "lowered"
  /\ UNCHANGED <<machine, input, out>>

StatementLowered == pc = "lowered"

-----------------------------------------------------------------------------
(* Duplicate declarations: compound statements of up to MaxDecls items     *)
(* among  int a;  int b;  enum { a } c;  enum { e, e = 5 } d;  { int a; }  *)
(* and  a;                                                                 *)

\* The most block items of the compound statement.
MaxDecls == 3

DeclItems ==
  {BlockItemDecl(Decl("a", int_type, NoInitializer)),
   BlockItemDecl(Decl("b", int_type, NoInitializer)),
   BlockItemDecl(EnumDecl("c", <<Enumerator("a", NoExpr)>>, NoInitializer)),
   BlockItemDecl(EnumDecl("d", <<Enumerator("e", NoExpr),
                                 Enumerator("e", IntLiteralExpr(5))>>,
                          NoInitializer)),
   BlockItemStatement(
     CompoundStatement(
       <<BlockItemDecl(Decl("a", int_type, NoInitializer))>>)),
   BlockItemStatement(ExprStatement(IdentifierExpr("a")))}

InitDecls ==
  \E items \in SeqsUpTo(DeclItems, MaxDecls) :
    InitStatement(CompoundStatement(items))

SpecDecls == InitDecls /\ [][LowerStatement]_vars

\* The identifiers that a block item declares in the scope it stands in:
\* the enumerators of its specifier, then its declarator.
DeclaredBy(item) ==
  IF item.t # "BLOCK_ITEM_DECL" THEN <<>>
  ELSE (IF "enumerator_list" \in DOMAIN item.decl
          THEN [i \in 1..Len(item.decl.enumerator_list) |->
                  item.decl.enumerator_list[i].name]
          ELSE <<>>)
         \o <<item.decl.name>>

\* The identifiers that the statement being lowered declares in its scope.
DeclaredInScope ==
  Concat([i \in 1..Len(input.block_item_list) |->
            DeclaredBy(input.block_item_list[i])])

\* One identifier is declared twice in the scope of the statement.
DeclaredTwice ==
  \E i, j \in 1..Len(DeclaredInScope) :
    i < j /\ DeclaredInScope[i] = DeclaredInScope[j]

\* C14: declaring an identifier twice in one scope (two locals, two
\* enumerators, or a local and an enumerator) aborts the translation.
C14_DuplicateAborts ==
  StatementLowered /\ DeclaredTwice => builder.aborted

-----------------------------------------------------------------------------
(* sizeof: ir_gen_expr applied to  sizeof E  in the body of int f(int p),  *)
(* E over p, 1, f(p), string literals, casts, &&, ||, ?: and sizeof.       *)

\* The longest string literal.
MaxChars == 2

SizeofExpr(arg) == UnaryExpr("SIZEOF_EXPR_EXPR", arg)

IntOperands ==
  {IdentifierExpr("p"), IntLiteralExpr(1),
   FunctionCallExpr(IdentifierExpr("f"), <<IdentifierExpr("p")>>)}

SizeofOperands ==
  IntOperands
    \cup {StringLiteralExpr(chars) : chars \in SeqsUpTo({97}, MaxChars)}
    \cup {CastExpr(T, x) : T \in {char_type, long_type}, x \in IntOperands}
    \cup Combine(IntOperands)
    \cup {SizeofExpr(x) : x \in IntOperands}

InitSizeof ==
  /\ input \in {SizeofExpr(x) : x \in SizeofOperands}
  /\ AtFunctionEntry
  /\ pc = "expr"
  /\ machine = NoMachine
  /\ out = [b |-> builder, e |-> env]

\* The expression is lowered for its value.
LowerExpr ==
  /\ pc = "expr"
  /\ LET Lowered(r) ==
           builder' = r.b /\ out' = [out EXCEPT !.e = env] @@ [term |-> r.term]
     IN  Lowered(ir_gen("expr", builder, env, input, "RVALUE_CONTEXT"))
  /\ pc' = "lowered"
  /\ UNCHANGED <<env, machine, input>>

SpecSizeof == InitSizeof /\ [][LowerExpr]_vars

\* The expression has been lowered and no assertion has rejected it.
ExprLowered == pc = "lowered" /\ ~Stopped(builder)

\* The function being lowered has the blocks and the instructions it had.
SameFunctionBody ==
  /\ builder.globals[out.b.current_function].blocks
       = out.b.globals[out.b.current_function].blocks
  /\ \A i \in 1..Len(out.b.globals[out.b.current_function].blocks) :
       builder.pool[out.b.globals[out.b.current_function].blocks[i]]
         = out.b.pool[out.b.globals[out.b.current_function].blocks[i]]

\* The current function and block are what they were.
SamePosition ==
  /\ builder.current_function = out.b.current_function
  /\ builder.current_block = out.b.current_block

\* C15: lowering sizeof E has no side effect, whatever E is: the current
\* function and block are what they were, the function being lowered has
\* no new block or instruction, and the translation unit has no new
\* global.
C15_SizeofNoSideEffect ==
  ExprLowered =>
    /\ SamePosition
    /\ SameFunctionBody
    /\ Len(builder.globals) = Len(out.b.globals)

\* What holds of every operand: the position and the function are kept.
SizeofKeepsFunction == ExprLowered => SamePosition /\ SameFunctionBody

\* A global is added only for a string literal in the operand.
SizeofAddsGlobalOnlyForString ==
  ExprLowered /\ Len(builder.globals) # Len(out.b.globals) =>
    input.arg.t = "STRING_LITERAL_EXPR"

-----------------------------------------------------------------------------
(* Type handles: the types of a translation unit as objects of the pool of *)
(* the type environment, named by their position in it (0 is NULL).        *)
(* Declarators request pointer and array types over the types there are.   *)

\* The most requests.
MaxRequests == 4

TypeObject(t, of) == [t |-> t, cached_pointer_type |-> 0, of |-> of]

\* The type environment with the types int and char.
InitTypeEnv ==
  [pool |-> <<TypeObject("INTEGER_TYPE", 0), TypeObject("INTEGER_TYPE", 0)>>]

\* A plausible slip: every request allocates a new pointer type.
pointer_type_uncached(type_env, type) ==
  [type_env |-> [type_env EXCEPT
                   !.pool = Append(@, TypeObject("POINTER_TYPE", type)),
                   !.pool[type].cached_pointer_type = Len(type_env.pool) + 1],
   type |-> Len(type_env.pool) + 1]

\* pointer_type: the cached pointer type of the type if it has one, else a
\* new type object, which the type then caches.
pointer_type_cached(type_env, type) ==
  IF type_env.pool[type].cached_pointer_type # 0
    THEN [type_env |-> type_env,
          type |-> type_env.pool[type].cached_pointer_type]
  ELSE [type_env |-> [type_env EXCEPT
                        !.pool = Append(@, TypeObject("POINTER_TYPE", type)),
                        !.pool[type].cached_pointer_type =
                          Len(type_env.pool) + 1],
        type |-> Len(type_env.pool) + 1]

\* array_type: always a new type object.
array_type_allocated(type_env, type) ==
  [type_env |-> [type_env EXCEPT
                   !.pool = Append(@, TypeObject("ARRAY_TYPE", type))],
   type |-> Len(type_env.pool) + 1]

InitRequests ==
  /\ builder = ToplevelBuilder
  /\ env = InitEnv @@ [type_env |-> InitTypeEnv]
  /\ pc = "declarators"
  /\ machine = NoMachine
  /\ input = <<>>
  /\ out = [requests |-> <<>>]

\* There is another declarator.
RoomForRequest == pc = "declarators" /\ Len(out.requests) < MaxRequests

\* A pointer declarator over a type: decl_to_cdecl asks for its pointer type.
RequestPointerType ==
  /\ RoomForRequest
  /\ \E T \in 1..Len(env.type_env.pool) :
       LET Answered(r) ==
             /\ env' = [env EXCEPT !.type_env = r.type_env]
             /\ out' = [requests |->
                          Append(out.requests,
                                 [t |-> "POINTER_TYPE", of |-> T,
                                  type |-> r.type])]
       IN  Answered(pointer_type_cached(env.type_env, T))
  /\ UNCHANGED <<builder, pc, machine, input>>

\* An array declarator over a type.
RequestArrayType ==
  /\ RoomForRequest
  /\ \E T \in 1..Len(env.type_env.pool) :
       LET Answered(r) ==
             /\ env' = [env EXCEPT !.type_env = r.type_env]
             /\ out' = [requests |->
                          Append(out.requests,
                                 [t |-> "ARRAY_TYPE", of |-> T,
                                  type |-> r.type])]
       IN  Answered(array_type_allocated(env.type_env, T))
  /\ UNCHANGED <<builder, pc, machine, input>>

NextRequests == RequestPointerType \/ RequestArrayType

SpecRequests == InitRequests /\ [][NextRequests]_vars

\* The requests for the pointer type of T, in order.
PointerRequests(T) ==
  SelectSeq(out.requests, LAMBDA r : r.t = "POINTER_TYPE" /\ r.of = T)

\* C16: however requests for other types are interleaved, every request
\* for the pointer type of a type T is answered with the same handle, a
\* pointer type to T.
C16_PointerTypeCached ==
  \A T \in 1..Len(env.type_env.pool) :
    \A i \in 1..Len(PointerRequests(T)) :
      /\ PointerRequests(T)[i].type = PointerRequests(T)[1].type
      /\ env.type_env.pool[PointerRequests(T)[i].type]
           = [TypeObject("POINTER_TYPE", T) EXCEPT
                !.cached_pointer_type =
                  env.type_env.pool[PointerRequests(T)[i].type]
                    .cached_pointer_type]

\* int * was requested, then other types, then int * again: same handle.
C16_Witness ==
  /\ Len(out.requests) = MaxRequests
  /\ out.requests[1].t = "POINTER_TYPE" /\ out.requests[1].of = 1
  /\ out.requests[2].t = "ARRAY_TYPE"
  /\ out.requests[3].t = "POINTER_TYPE" /\ out.requests[3].of # 1
  /\ out.requests[4].t = "POINTER_TYPE" /\ out.requests[4].of = 1
  /\ out.requests[4].type = out.requests[1].type

-----------------------------------------------------------------------------
(* Declarators (decl_to_cdecl, direct_declarator_to_cdecl)                 *)

NoDeclarator == [t |-> "NULL"]

PointerDeclarator(pointee) == [t |-> "POINTER_DECLARATOR", pointee |-> pointee]

DirectDeclarator(direct_declarator) ==
  [t |-> "DIRECT_DECLARATOR", direct_declarator |-> direct_declarator]

NestedDeclarator(declarator) == [t |-> "DECLARATOR", declarator |-> declarator]

IdentifierDeclarator(name) == [t |-> "IDENTIFIER_DECLARATOR", name |-> name]

ArrayDeclarator(element_declarator, array_length) ==
  [t |-> "ARRAY_DECLARATOR", element_declarator |-> element_declarator,
   array_length |-> array_length]

FunctionDeclarator(declarator, parameters) ==
  [t |-> "FUNCTION_DECLARATOR", declarator |-> declarator,
   parameters |-> parameters]

\* A parameter: the type of its specifiers and its declarator.
ParameterDecl(type, declarator) ==
  [t |-> "PARAMETER_DECL", type |-> type, declarator |-> declarator]

EllipsisDecl == [t |-> "ELLIPSIS_DECL"]

RECURSIVE decl_to_cdecl(_, _, _, _)
RECURSIVE direct_declarator_to_cdecl(_, _, _, _)
RECURSIVE parameter_types(_, _, _, _, _)

\* The second loop of the FUNCTION_DECLARATOR case over the parameters;
\* acc carries arg_c_types and variable_arity.
parameter_types(b, e, params, i, acc) ==
  IF i > Len(params) THEN [b |-> b, acc |-> acc]
  ELSE IF params[i].t = "ELLIPSIS_DECL"
    THEN parameter_types(AbortIf(b, i # Len(params)), e, params, i + 1,
                         [acc EXCEPT !.variable_arity = TRUE])
  ELSE
    LET Declared(param) ==
          parameter_types(
            AbortIf(param.b, /\ param.cdecl.type.t = "VOID_TYPE"
                             /\ (i # 1 \/ param.cdecl.name # "")),
            e, params, i + 1,
            [acc EXCEPT !.arg_c_types =
               Append(@, decay_to_pointer(param.cdecl.type))])
    IN  Declared(decl_to_cdecl(b, e, params[i].type, params[i].declarator))

decl_to_cdecl(b, e, ident_type, declarator) ==
  IF declarator = NoDeclarator THEN [b |-> b, cdecl |-> CDecl("", ident_type)]
  ELSE IF declarator.t = "POINTER_DECLARATOR"
    THEN decl_to_cdecl(b, e, pointer_type(ident_type), declarator.pointee)
  ELSE direct_declarator_to_cdecl(b, e, ident_type,
                                  declarator.direct_declarator)

direct_declarator_to_cdecl(b, e, ident_type, declarator) ==
  CASE declarator.t = "DECLARATOR" ->
         decl_to_cdecl(b, e, ident_type, declarator.declarator)
    [] declarator.t = "IDENTIFIER_DECLARATOR" ->
         [b |-> b, cdecl |-> CDecl(declarator.name, ident_type)]
    [] declarator.t = "ARRAY_DECLARATOR" ->
         LET Wrapped(elem) ==
               LET array == incomplete_array_type(elem.cdecl.type)
                   Measured(length_const) ==
                     [b |-> AbortIf(length_const.b,
                                    length_const.konst.type.t # "IR_INT"),
                      cdecl |-> CDecl(elem.cdecl.name,
                                      set_array_type_length(
                                        array, length_const.konst.integer))]
               IN  IF declarator.array_length = NoExpr
                     THEN [b |-> elem.b, cdecl |-> CDecl(elem.cdecl.name, array)]
                   ELSE Measured(eval_constant_expr(elem.b, e,
                                                    declarator.array_length))
         IN  Wrapped(direct_declarator_to_cdecl(
                       b, e, ident_type, declarator.element_declarator))
    [] declarator.t = "FUNCTION_DECLARATOR" ->
         LET Typed(params) ==
               LET nullary == /\ Len(params.acc.arg_c_types) = 1
                              /\ params.acc.arg_c_types[1].t = "VOID_TYPE"
               IN  direct_declarator_to_cdecl(
                     AbortIf(params.b, nullary /\ params.acc.variable_arity),
                     e,
                     CFunction(ident_type,
                               IF nullary THEN <<>>
                               ELSE params.acc.arg_c_types,
                               params.acc.variable_arity),
                     declarator.declarator)
         IN  Typed(parameter_types(b, e, declarator.parameters, 1,
                                   [arg_c_types |-> <<>>,
                                    variable_arity |-> FALSE]))

-----------------------------------------------------------------------------
(* Declarator shapes: T D for T in int, char and D built from the          *)
(* identifier a by pointers, parentheses, array bounds 2 and 3 and         *)
(* parameter lists (void), (int) and (int, ...).                           *)

\* How deep pointers, parentheses and array bounds nest.
MaxDeclaratorDepth == 3

Ident == IdentifierDeclarator("a")

\* The direct declarators and the declarators of a depth over pointers,
\* parentheses and array bounds.
RECURSIVE DirectShapes(_)
RECURSIVE Shapes(_)
DirectShapes(depth) ==
  IF depth = 0 THEN {Ident}
  ELSE DirectShapes(depth - 1)
         \cup {ArrayDeclarator(d, IntLiteralExpr(n)) :
                 d \in DirectShapes(depth - 1), n \in {2, 3}}
         \cup {NestedDeclarator(d) : d \in Shapes(depth - 1)}

Shapes(depth) ==
  {DirectDeclarator(d) : d \in DirectShapes(depth)}
    \cup (IF depth = 0 THEN {}
          ELSE {PointerDeclarator(d) : d \in Shapes(depth - 1)})

ParameterLists ==
  {<<ParameterDecl(void_type, NoDeclarator)>>,
   <<ParameterDecl(int_type, NoDeclarator)>>,
   <<ParameterDecl(int_type, DirectDeclarator(Ident)), EllipsisDecl>>}

\* f(params), *f(params), (*f)(params), (*f[2])(params)
FunctionShapes ==
  UNION {
    {DirectDeclarator(FunctionDeclarator(Ident, params)),
     PointerDeclarator(DirectDeclarator(FunctionDeclarator(Ident, params))),
     DirectDeclarator(
       FunctionDeclarator(
         NestedDeclarator(PointerDeclarator(DirectDeclarator(Ident))),
         params)),
     DirectDeclarator(
       FunctionDeclarator(
         NestedDeclarator(
           PointerDeclarator(
             DirectDeclarator(ArrayDeclarator(Ident, IntLiteralExpr(2))))),
         params))} :
    params \in ParameterLists}

InitDeclarators ==
  /\ input \in [type : {int_type, char_type},
                declarator : Shapes(MaxDeclaratorDepth) \cup FunctionShapes]
  /\ AtFunctionEntry
  /\ pc = "declarator"
  /\ machine = NoMachine
  /\ out = [cdecl |-> CDecl("", input.type)]

\* The declarator is resolved over the type of the specifiers.
DeclToCDecl ==
  /\ pc = "declarator"
  /\ LET Resolved(r) == builder' = r.b /\ out' = [cdecl |-> r.cdecl]
     IN  Resolved(decl_to_cdecl(builder, env, input.type, input.declarator))
  /\ pc' = "declared"
  /\ UNCHANGED <<env, machine, input>>

SpecDeclarators == InitDeclarators /\ [][DeclToCDecl]_vars

\* The types of a parameter list without declarators of its own.
ListedTypes(params) ==
  LET decls == SelectSeq(params, LAMBDA p : p.t = "PARAMETER_DECL")
  IN  IF Len(decls) = 1 /\ decls[1].type = void_type THEN <<>>
      ELSE [i \in 1..Len(decls) |-> decls[i].type]

\* The type that C gives the identifier of a declarator over the type T of
\* the specifiers, read inside-out: what stands next to the identifier
\* applies last.
RECURSIVE InsideOut(_, _)
InsideOut(T, d) ==
  CASE d.t = "IDENTIFIER_DECLARATOR" -> T
    [] d.t = "DIRECT_DECLARATOR" -> InsideOut(T, d.direct_declarator)
    [] d.t = "DECLARATOR" -> InsideOut(T, d.declarator)
    [] d.t = "POINTER_DECLARATOR" -> InsideOut(CPointer(T), d.pointee)
    [] d.t = "ARRAY_DECLARATOR" ->
         InsideOut(array_type(T, d.array_length.value), d.element_declarator)
    [] d.t = "FUNCTION_DECLARATOR" ->
         InsideOut(CFunction(T, ListedTypes(d.parameters),
                             \E i \in 1..Len(d.parameters) :
                               d.parameters[i].t = "ELLIPSIS_DECL"),
                   d.declarator)

Declared == pc = "declared" /\ ~Stopped(builder)

\* C17: a declarator is resolved inside-out: T (*a)[N] is a pointer to an
\* array of N T, T *a[N] an array of N pointers to T, T a[N][M] an array of
\* N arrays of M T, and T (*f)(params) a pointer to a function returning T.
C17_DeclaratorsInsideOut ==
  Declared => out.cdecl.type = InsideOut(input.type, input.declarator)

\* An array bound around anything but the identifier: (*a)[N], a[N][M].
ArrayAroundDeclarator(d) ==
  /\ d.t = "ARRAY_DECLARATOR"
  /\ d.element_declarator # Ident

RECURSIVE HasArrayAroundDeclarator(_)
HasArrayAroundDeclarator(d) ==
  CASE d.t = "IDENTIFIER_DECLARATOR" -> FALSE
    [] d.t = "DIRECT_DECLARATOR" -> HasArrayAroundDeclarator(d.direct_declarator)
    [] d.t = "DECLARATOR" -> HasArrayAroundDeclarator(d.declarator)
    [] d.t = "POINTER_DECLARATOR" -> HasArrayAroundDeclarator(d.pointee)
    [] d.t = "ARRAY_DECLARATOR" ->
         ArrayAroundDeclarator(d)
           \/ HasArrayAroundDeclarator(d.element_declarator)
    [] d.t = "FUNCTION_DECLARATOR" -> HasArrayAroundDeclarator(d.declarator)

\* What holds: the other declarators are resolved inside-out.
InsideOutButArrays ==
  Declared /\ ~HasArrayAroundDeclarator(input.declarator) =>
    out.cdecl.type = InsideOut(input.type, input.declarator)

-----------------------------------------------------------------------------
(* Block scopes: compound statements in the body of int f(int p) whose     *)
(* items are  char p;  int a;  p;  a;  { D }  { D u; }                     *)
(* for (D;;) u;  and  if (p) { D u; }  with D a declaration and u a use.   *)

\* The most block items of the outer compound statement.
MaxScopeItems == 2

ForDeclStatement(init, condition, update_expr, body) ==
  [ForStatement(init, condition, update_expr, body) EXCEPT
     !.init_type = "FOR_INIT_DECL"]

ScopeDecls ==
  {Decl("p", char_type, NoInitializer), Decl("a", int_type, NoInitializer)}

ScopeUses == {ExprStatement(IdentifierExpr(n)) : n \in {"p", "a"}}

DeclThenUse(D, u) ==
  CompoundStatement(<<BlockItemDecl(D), BlockItemStatement(u)>>)

InnerStatements ==
  ScopeUses
    \cup {CompoundStatement(<<BlockItemDecl(D)>>) : D \in ScopeDecls}
    \cup {DeclThenUse(D, u) : D \in ScopeDecls, u \in ScopeUses}
    \cup {ForDeclStatement(D, NoExpr, NoExpr, u) :
            D \in ScopeDecls, u \in ScopeUses}
    \cup {IfStatement(IdentifierExpr("p"), DeclThenUse(D, u), NoStatement) :
            D \in ScopeDecls, u \in ScopeUses}

ScopeItems ==
  {BlockItemDecl(D) : D \in ScopeDecls}
    \cup {BlockItemStatement(s) : s \in InnerStatements}

InitScopes ==
  \E items \in SeqsUpTo(ScopeItems, MaxScopeItems) :
    InitStatement(CompoundStatement(items))

SpecScopes == InitScopes /\ [][LowerStatement]_vars

\* What the names p and a denote where the body of f begins: the
\* parameter, an int, and nothing.
BodyScope == [p |-> "INT", a |-> "NONE"]

\* The scope after a declaration.
Declare(scope, decl) == [scope EXCEPT ![decl.name] = decl.type.type]

\* What each use of a name in the statement denotes by the scope rules of
\* C, in source order: a name declared in a block or in the init clause of
\* a for is visible from there to the end of that statement only, and
\* hides an outer declaration of the name meanwhile.
RECURSIVE UsesIn(_, _)
RECURSIVE UsesInItems(_, _, _)
UsesIn(s, scope) ==
  CASE s.t = "EXPR_STATEMENT" -> <<scope[s.expr.identifier]>>
    [] s.t = "COMPOUND_STATEMENT" -> UsesInItems(s.block_item_list, 1, scope)
    [] s.t = "FOR_STATEMENT" -> UsesIn(s.body, Declare(scope, s.init))
    [] s.t = "IF_STATEMENT" ->
         <<scope[s.condition.identifier]>> \o UsesIn(s.then_statement, scope)

UsesInItems(items, i, scope) ==
  IF i > Len(items) THEN <<>>
  ELSE IF items[i].t = "BLOCK_ITEM_DECL"
    THEN UsesInItems(items, i + 1, Declare(scope, items[i].decl))
  ELSE UsesIn(items[i].statement, scope)
         \o UsesInItems(items, i + 1, scope)

\* How many uses in the statement being lowered denote an object of a kind.
UsesOf(kind) ==
  Cardinality({i \in 1..Len(UsesIn(input, BodyScope)) :
                 UsesIn(input, BodyScope)[i] = kind})

\* How many loads of a width f has.
LoadsOf(bit_width) ==
  Cardinality(
    {id \in UNION {{<<k, i>> : i \in 1..Len(builder.pool[k].instrs)} :
                   k \in 1..Len(builder.pool)} :
       /\ builder.pool[id[1]].instrs[id[2]].op = "OP_LOAD"
       /\ builder.pool[id[1]].instrs[id[2]].type.bit_width = bit_width})

\* C18: after a statement is lowered the scope is the one before it, so a
\* name declared in a block or in the init clause of a for does not resolve
\* afterwards (its use aborts), and while a block lasts its names hide
\* those of the scopes around it (a use loads the inner object).
C18_ScopeRestored ==
  StatementLowered =>
    /\ builder.aborted <=> UsesOf("NONE") > 0
    /\ ~Stopped(builder) =>
         /\ env.scope = out.e.scope
         /\ LoadsOf(8) = UsesOf("CHAR")
         /\ LoadsOf(32) = UsesOf("INT")

\* { for (char p;;) p;  p; }: the first use loads the char of the for, the
\* second the parameter.
C18_Witness ==
  /\ StatementLowered /\ ~Stopped(builder)
  /\ Len(input.block_item_list) = 2
  /\ input.block_item_list[1].t = "BLOCK_ITEM_STATEMENT"
  /\ input.block_item_list[1].statement.t = "FOR_STATEMENT"
  /\ UsesIn(input, BodyScope) = <<"CHAR", "INT">>
  /\ LoadsOf(8) = 1 /\ LoadsOf(32) = 1
  /\ env.scope = out.e.scope

-----------------------------------------------------------------------------
(* break and continue: in the body of int f(int p), the statements         *)
(*   u      K(u)      K(K'(u))      K({ K'(u) v })      { K(u) v }         *)
(* where K and K' are while, do-while, for or switch and u, v are          *)
(* L1: break;  L1: continue;  and the same with L2.                        *)

LoopKinds ==
  {"WHILE_STATEMENT", "DO_WHILE_STATEMENT", "FOR_STATEMENT",
   "SWITCH_STATEMENT"}

\* The loop or switch of a kind around a body.
Around(kind, body) ==
  IF kind = "FOR_STATEMENT" THEN ForStatement(NoExpr, NoExpr, NoExpr, body)
  ELSE ExprAndStatement(kind, IdentifierExpr("p"), body)

Jumps(label) ==
  {LabeledStatement(label, s) : s \in {BreakStatement, ContinueStatement}}

Sequence(first, second) ==
  CompoundStatement(<<BlockItemStatement(first), BlockItemStatement(second)>>)

JumpStatements ==
  Jumps("L1")
    \cup {Around(K, u) : K \in LoopKinds, u \in Jumps("L1")}
    \cup {Around(K, Around(K2, u)) :
            K \in LoopKinds, K2 \in LoopKinds, u \in Jumps("L1")}
    \cup {Around(K, Sequence(Around(K2, u), v)) :
            K \in LoopKinds, K2 \in LoopKinds, u \in Jumps("L1"),
            v \in Jumps("L2")}
    \cup {Sequence(Around(K, u), v) :
            K \in LoopKinds, u \in Jumps("L1"), v \in Jumps("L2")}

InitJumps == \E statement \in JumpStatements : InitStatement(statement)

SpecJumps == InitJumps /\ [][LowerStatement]_vars

\* No block: what break and continue have as target outside loops.
NoTarget == <<"", 0>>

\* The body of a loop or switch.
BodyOf(s) == IF s.t = "FOR_STATEMENT" THEN s.body ELSE s.statement

\* How many loops or switches of a kind the statement holds.
RECURSIVE CountOf(_, _)
CountOf(s, kind) ==
  IF s.t \in LoopKinds
    THEN (IF s.t = kind THEN 1 ELSE 0) + CountOf(BodyOf(s), kind)
  ELSE IF s.t = "COMPOUND_STATEMENT"
    THEN CountOf(s.block_item_list[1].statement, kind)
           + CountOf(s.block_item_list[2].statement, kind)
  ELSE 0

\* The blocks to which a loop or switch, the k-th of its kind in the
\* function, sends break and continue (outer is the target of continue
\* around it): a block is named by its name and its number among the
\* blocks of that name.
BreakTargetOf(s, k) ==
  CASE s.t = "WHILE_STATEMENT" -> <<"while.after", k>>
    [] s.t = "DO_WHILE_STATEMENT" -> <<"do_while.after", k>>
    [] s.t = "FOR_STATEMENT" -> <<"for.after", k>>
    [] s.t = "SWITCH_STATEMENT" -> <<"switch.after", k>>

ContinueTargetOf(s, k, outer) ==
  CASE s.t = "WHILE_STATEMENT" -> <<"while.ph", k>>
    [] s.t = "DO_WHILE_STATEMENT" -> <<"do_while.ph", k>>
    [] s.t = "FOR_STATEMENT" -> <<"for.update", k>>
    [] s.t = "SWITCH_STATEMENT" -> outer

\* Where each labeled break and continue of the statement has to lead, in
\* source order: to the innermost loop or switch around it for break, the
\* innermost loop for continue. seen counts the loops and switches of each
\* kind before the statement.
RECURSIVE JumpsOf(_, _, _, _)
JumpsOf(s, break_target, continue_target, seen) ==
  IF s.t = "LABELED_STATEMENT"
    THEN <<[label |-> s.label_name,
            target |-> IF s.statement.t = "BREAK_STATEMENT"
                         THEN break_target ELSE continue_target]>>
  ELSE IF s.t = "COMPOUND_STATEMENT"
    THEN JumpsOf(s.block_item_list[1].statement, break_target,
                 continue_target, seen)
           \o JumpsOf(s.block_item_list[2].statement, break_target,
                      continue_target,
                      [kind \in LoopKinds |->
                         seen[kind]
                           + CountOf(s.block_item_list[1].statement, kind)])
  ELSE JumpsOf(BodyOf(s), BreakTargetOf(s, seen[s.t] + 1),
               ContinueTargetOf(s, seen[s.t] + 1, continue_target),
               [seen EXCEPT ![s.t] = @ + 1])

ExpectedJumps ==
  JumpsOf(input, NoTarget, NoTarget, [kind \in LoopKinds |-> 0])

\* The block in which the statement labeled so begins.
BlockLabeled(label) ==
  CHOOSE k \in 1..Len(builder.pool) : builder.pool[k].name = label

\* Where the first instruction of that block branches: the name of the
\* block and its number among the blocks of that name.
BranchOf(label) ==
  LET instr == builder.pool[BlockLabeled(label)].instrs[1]
      target == instr.targets[1]
  IN  IF instr.op # "OP_BRANCH" THEN NoTarget
      ELSE <<builder.pool[target].name,
             Cardinality({k \in 1..target :
                            builder.pool[k].name = builder.pool[target].name})>>

\* C19: break branches to the after block of the innermost loop or switch
\* around it and continue to the continue block of the innermost loop
\* (the pre-header of while and do-while, the update block of for), also
\* through switches in between; after a loop or switch the targets are
\* what they were before it; break or continue without a target aborts.
C19_JumpTargets ==
  StatementLowered =>
    /\ builder.aborted
         <=> \E i \in 1..Len(ExpectedJumps) : ExpectedJumps[i].target = NoTarget
    /\ ~Stopped(builder) =>
         /\ \A i \in 1..Len(ExpectedJumps) :
              BranchOf(ExpectedJumps[i].label) = ExpectedJumps[i].target
         /\ env.break_target = out.e.break_target
         /\ env.continue_target = out.e.continue_target

\* for (;;) { switch (p) L1: continue;  L2: break; }: continue leads through
\* the switch to the update block of the for, and break after the switch
\* to the after block of the for.
C19_Witness ==
  /\ StatementLowered /\ ~Stopped(builder)
  /\ input.t = "FOR_STATEMENT"
  /\ input.body.t = "COMPOUND_STATEMENT"
  /\ input.body.block_item_list[1].statement.t = "SWITCH_STATEMENT"
  /\ BranchOf("L1") = <<"for.update", 1>>
  /\ BranchOf("L2") = <<"for.after", 1>>

-----------------------------------------------------------------------------
(* The order of the case labels of a switch, in the translation units of   *)
(* SpecSwitch.                                                             *)

\* The constants that the comparisons of t test, in the order of the
\* compare chain: the entry block, then the switch.cmp blocks as laid out.
ChainConstants ==
  LET blocks == builder.globals[GlobalNamed(builder, "t")].blocks
  IN  Concat([k \in 1..Len(blocks) |->
                LET cmps == SelectSeq(builder.pool[blocks[k]].instrs,
                                      LAMBDA instr : instr.op = "OP_CMP")
                IN  [i \in 1..Len(cmps) |-> cmps[i].args[2].u]])

\* The constants of the case labels on an item, the outermost first, and
\* the innermost first.
RECURSIVE OutermostFirst(_)
OutermostFirst(s) ==
  IF s.t = "CASE_STATEMENT"
    THEN <<s.expr.value>> \o OutermostFirst(s.statement)
  ELSE <<>>

RECURSIVE InnermostFirst(_)
InnermostFirst(s) ==
  IF s.t = "CASE_STATEMENT"
    THEN InnermostFirst(s.statement) \o <<s.expr.value>>
  ELSE <<>>

\* t has been emitted.
SwitchEmitted == Emitted /\ GlobalNamed(builder, "t") # 0

\* C20: a case statement registers its label before its body is lowered,
\* so the compare chain tests the labels in source order: for
\* case a: case b: S  it tests a before b.
C20_CaseLabelsInSourceOrder ==
  SwitchEmitted =>
    ChainConstants
      = Concat([i \in 1..Len(SwitchBody) |-> OutermostFirst(SwitchBody[i])])

\* What holds: the labels of one statement are tested innermost first, the
\* labeled statements of the body in source order.
CaseLabelsInnermostFirst ==
  SwitchEmitted =>
    ChainConstants
      = Concat([i \in 1..Len(SwitchBody) |-> InnermostFirst(SwitchBody[i])])

-----------------------------------------------------------------------------
(* Nested switch statements: translation units                             *)
(*   int t(int p) { switch (p) { items } return 7; }                       *)
(* whose items are case and default labels over a return or over an inner  *)
(* switch on p, and inner switches without a label. The outer labels are   *)
(* over 0 and 2, the inner ones over 4, 6 and 8.                           *)

\* The most items in the body of the outer switch.
MaxNestedItems == 2

SwitchOver(items) ==
  SwitchStatement(IdentifierExpr("p"),
                  CompoundStatement([i \in 1..Len(items) |->
                                       BlockItemStatement(items[i])]))

Returning(value) == ReturnStatement(IntLiteralExpr(value))

InnerSwitches ==
  {SwitchOver(<<CaseStatement(4, Returning(14))>>),
   SwitchOver(<<CaseStatement(4, Returning(14)),
                LabeledStatement("default", Returning(98))>>),
   SwitchOver(<<LabeledStatement("default", Returning(98)),
                CaseStatement(6, Returning(16))>>),
   SwitchOver(<<CaseStatement(
                  6, SwitchOver(<<CaseStatement(8, Returning(18))>>))>>)}

NestedItems ==
  {CaseStatement(0, Returning(10)), CaseStatement(2, Returning(12)),
   LabeledStatement("default", Returning(99))}
    \cup InnerSwitches
    \cup {CaseStatement(2, s) : s \in InnerSwitches}
    \cup {LabeledStatement("default", s) : s \in InnerSwitches}

NestedUnit(items) ==
  <<FunctionDef("t", CFunction(int_type, <<int_type>>, FALSE), <<"p">>,
                CompoundStatement(
                  <<BlockItemStatement(SwitchOver(items)),
                    BlockItemStatement(Returning(7))>>))>>

InitNested ==
  \E items \in SeqsUpTo(NestedItems, MaxNestedItems) :
    InitToplevel(NestedUnit(items))

NextNested == ToplevelFunctionDef \/ ToplevelEnd

SpecNested == InitNested /\ [][NextNested]_vars

\* The outer switch of the unit being compiled.
OuterSwitch == out.unit[1].body.block_item_list[1].statement

\* The items of the body of a switch.
ItemsOf(switch) ==
  [i \in 1..Len(switch.statement.block_item_list) |->
     switch.statement.block_item_list[i].statement]

\* The constants of the case labels that a statement carries for the
\* switch it is an item of, and whether it carries a default label for it:
\* the labels down to the first statement that is not a label.
RECURSIVE OwnCases(_)
OwnCases(s) ==
  IF s.t = "CASE_STATEMENT" THEN {s.expr.value} \cup OwnCases(s.statement)
  ELSE IF s.t = "LABELED_STATEMENT" THEN OwnCases(s.statement)
  ELSE {}

RECURSIVE OwnDefault(_)
OwnDefault(s) ==
  IF s.t = "LABELED_STATEMENT" THEN TRUE
  ELSE IF s.t = "CASE_STATEMENT" THEN OwnDefault(s.statement)
  ELSE FALSE

\* The labels that belong to a switch.
LabelsOf(switch) ==
  [constants |-> UNION {OwnCases(ItemsOf(switch)[i]) :
                          i \in 1..Len(ItemsOf(switch))},
   default |-> \E i \in 1..Len(ItemsOf(switch)) :
                 OwnDefault(ItemsOf(switch)[i])]

\* The switch statements in a statement, itself included.
RECURSIVE SwitchesIn(_)
SwitchesIn(s) ==
  IF s.t = "SWITCH_STATEMENT"
    THEN {s} \cup UNION {SwitchesIn(ItemsOf(s)[i]) : i \in 1..Len(ItemsOf(s))}
  ELSE IF s.t \in {"CASE_STATEMENT", "LABELED_STATEMENT"}
    THEN SwitchesIn(s.statement)
  ELSE {}

\* The block tests a constant.
Tests(block) ==
  \E i \in 1..Len(builder.pool[block].instrs) :
    builder.pool[block].instrs[i].op = "OP_CMP"

\* The compare chain that starts in a block: the constant the block tests,
\* then the chain of the block that its conditional branch falls to, down
\* to a block that tests nothing and branches to a default label or to
\* switch.after.
RECURSIVE ChainFrom(_)
ChainFrom(block) ==
  LET instrs == builder.pool[block].instrs
      cmps == SelectSeq(instrs, LAMBDA instr : instr.op = "OP_CMP")
  IN  IF cmps = <<>>
        THEN [constants |-> {},
              default |-> builder.pool[Last(instrs).targets[1]].name
                            = "default"]
      ELSE LET Rest(rest) ==
                 [rest EXCEPT !.constants = @ \cup {cmps[1].args[2].u}]
           IN  Rest(ChainFrom(Last(instrs).targets[2]))

\* The compare chains of t: one from each block that tests a constant and
\* is not itself the continuation of a chain.
Chains ==
  {ChainFrom(BlocksOfT[k]) :
     k \in {j \in 1..Len(BlocksOfT) :
              /\ Tests(BlocksOfT[j])
              /\ builder.pool[BlocksOfT[j]].name # "switch.cmp"}}

NestedEmitted == pc = "done" /\ ~Stopped(builder)

\* C21: the body of a switch is lowered from an empty list of case labels
\* and the list of the enclosing switch is restored after it, so the
\* compare chain of each switch tests the constants of the case labels of
\* that switch only and ends at a default label exactly when that switch
\* has one, also when the inner switch is the body of an outer label.
C21_CaseLabelsPerSwitch ==
  NestedEmitted =>
    Chains = {LabelsOf(s) : s \in {x \in SwitchesIn(OuterSwitch) :
                                     LabelsOf(x).constants # {}}}

\* An inner switch with a default label was the body of a case label of
\* an outer switch that has no default label.
C21_Witness ==
  /\ NestedEmitted
  /\ ~LabelsOf(OuterSwitch).default
  /\ \E i \in 1..Len(ItemsOf(OuterSwitch)) :
       /\ ItemsOf(OuterSwitch)[i].t = "CASE_STATEMENT"
       /\ ItemsOf(OuterSwitch)[i].statement.t = "SWITCH_STATEMENT"
       /\ LabelsOf(ItemsOf(OuterSwitch)[i].statement).default
  /\ Cardinality(Chains) = 2

-----------------------------------------------------------------------------
(* Constant expressions: eval_constant_expr in the body of  int f(int p)   *)
(* on the literals 0 and 2, on p, on  (x, y)  p = x  f(x)  p++  ++p  p--   *)
(* --p  over them, and on these under up to MaxWraps of  (int)E  (char)E   *)
(* sizeof E  -E  E + 0  and  (0, E).                                       *)

\* The most operators around an operand.
MaxWraps == 2

\* The function entry, with either order of lowering the two operands of
\* a binary operator.
AtFunctionEntryEitherOrder ==
  LET At(entry) ==
        /\ builder = entry.b
        /\ env \in {[entry.e EXCEPT !.right_operand_first = o] :
                      o \in BOOLEAN}
  IN  At(FunctionEntry)

ConstLeaves == {IntLiteralExpr(0), IntLiteralExpr(2), IdentifierExpr("p")}

ForbiddenOperands ==
  {BinaryExpr("COMMA_EXPR", x, y) :
     x \in {IntLiteralExpr(0)}, y \in {IntLiteralExpr(0), IntLiteralExpr(2)}}
    \cup {BinaryExpr("ASSIGN_EXPR", IdentifierExpr("p"), IntLiteralExpr(2)),
          FunctionCallExpr(IdentifierExpr("f"), <<IntLiteralExpr(0)>>)}
    \cup {UnaryExpr(t, IdentifierExpr("p")) : t \in IncDecExprs}

Wrapped(S) ==
  {CastExpr(T, x) : T \in {int_type, char_type}, x \in S}
    \cup {SizeofExpr(x) : x \in S}
    \cup {UnaryExpr("UNARY_MINUS_EXPR", x) : x \in S}
    \cup {BinaryExpr("ADD_EXPR", x, IntLiteralExpr(0)) : x \in S}
    \cup {BinaryExpr("COMMA_EXPR", IntLiteralExpr(0), x) : x \in S}

RECURSIVE WrappedUpTo(_, _)
WrappedUpTo(S, n) ==
  IF n = 0 THEN S ELSE S \cup Wrapped(WrappedUpTo(S, n - 1))

InitConstExprs ==
  /\ input \in WrappedUpTo(ConstLeaves \cup ForbiddenOperands, MaxWraps)
  /\ AtFunctionEntryEitherOrder
  /\ pc = "expr"
  /\ machine = NoMachine
  /\ out = [b |-> builder, e |-> env]

\* The expression is evaluated as a constant.
EvalConstantExpr ==
  /\ pc = "expr"
  /\ LET Evaluated(r) ==
           builder' = r.b /\ out' = out @@ [konst |-> r.konst]
     IN  Evaluated(eval_constant_expr(builder, env, input))
  /\ pc' = "evaluated"
  /\ UNCHANGED <<env, machine, input>>

SpecConstExprs == InitConstExprs /\ [][EvalConstantExpr]_vars

\* The expression has an operator of those kinds at some depth outside the
\* operand of a sizeof.
RECURSIVE Has(_, _)
Has(kinds, expr) ==
  \/ expr.t \in kinds
  \/ /\ expr.t # "SIZEOF_EXPR_EXPR"
     /\ \/ "arg" \in DOMAIN expr /\ Has(kinds, expr.arg)
        \/ "arg1" \in DOMAIN expr /\ Has(kinds, expr.arg1)
        \/ "arg2" \in DOMAIN expr /\ Has(kinds, expr.arg2)

\* An assignment, an increment or decrement, a call or a comma operator.
HasForbidden(expr) == Has(NotConstExprs, expr)

ConstEvaluated == pc = "evaluated"

ConstAccepted == ConstEvaluated /\ ~Stopped(builder)

\* The blocks of the current function and the instructions of the current
\* block are as many as before the evaluation.
NothingAppended ==
  /\ builder.current_function = out.b.current_function
  /\ builder.current_block = out.b.current_block
  /\ Len(builder.globals[builder.current_function].blocks)
       = Len(out.b.globals[out.b.current_function].blocks)
  /\ Len(builder.pool[builder.current_block].instrs)
       = Len(out.b.pool[out.b.current_block].instrs)

\* C22: a constant expression with an assignment, an increment or
\* decrement, a call or a comma operator at any depth outside a sizeof
\* operand is rejected by eval_constant_expr, and an accepted constant
\* expression leaves the number of blocks of the current function and the
\* number of instructions of the current block as they were.
C22_ForbiddenInConstantRejected ==
  /\ ConstEvaluated /\ HasForbidden(input) => builder.aborted
  /\ ConstAccepted => NothingAppended

\* What holds: the operators are refused as the outermost operator of the
\* expression; below it an assignment, an increment or decrement and a
\* call are refused, and a comma operator is not.
ForbiddenOutermostRejected ==
  /\ ConstEvaluated /\ input.t \in NotConstExprs => builder.aborted
  /\ ConstEvaluated /\ Has(NotConstExprs \ {"COMMA_EXPR"}, input)
       => builder.aborted
  /\ ConstAccepted => NothingAppended

\* A comma operator under a cast was accepted.
CommaAccepted ==
  /\ ConstAccepted
  /\ input.t = "CAST_EXPR"
  /\ input.arg.t = "COMMA_EXPR"
  /\ out.konst.integer = 2

-----------------------------------------------------------------------------
(* Bit-not and unary minus: ir_gen_expr in the body of  int f(int p)  on   *)
(* ~E  and  -E,  where E is p, p or 2 cast to an integer type, or again    *)
(* one of the two operators over such an operand.                          *)

UnaryOps == {"BIT_NOT_EXPR", "UNARY_MINUS_EXPR"}

TypedOperands ==
  {IdentifierExpr("p")}
    \cup {CastExpr(T, x) :
            T \in IntegerTypes, x \in {IdentifierExpr("p"), IntLiteralExpr(2)}}

UnaryExprs ==
  {UnaryExpr(op, x) : op \in UnaryOps, x \in TypedOperands}
    \cup {UnaryExpr(op, UnaryExpr(inner, x)) :
            op \in UnaryOps, inner \in UnaryOps, x \in TypedOperands}

InitUnary ==
  /\ input \in UnaryExprs
  /\ AtFunctionEntry
  /\ pc = "expr"
  /\ machine = NoMachine
  /\ out = [b |-> builder, e |-> env]

SpecUnary == InitUnary /\ [][LowerExpr]_vars

\* The C type of an operand: that of p, that of a cast, and for ~ and -
\* that of their own operand.
RECURSIVE OperandType(_)
OperandType(expr) ==
  CASE expr.t = "IDENTIFIER_EXPR" -> int_type
    [] expr.t = "CAST_EXPR" -> expr.cast_type
    [] OTHER -> OperandType(expr.arg)

\* C24: ~ and unary minus yield a term of the C type of their operand, for
\* every integer type of the operand, so the C type of the term and the IR
\* type of its value agree.
C24_UnaryKeepsOperandType ==
  ExprLowered =>
    /\ out.term.ctype = OperandType(input.arg)
    /\ c_type_to_ir_type(out.term.ctype) = out.term.value.type

\* What holds: unary minus keeps the type of its operand, and ~ yields an
\* int whatever its operand, over a value of the IR type of the operand.
UnaryMinusKeepsOperandType ==
  ExprLowered =>
    /\ input.t = "UNARY_MINUS_EXPR" /\ input.arg.t # "BIT_NOT_EXPR" =>
         /\ out.term.ctype = OperandType(input.arg)
         /\ c_type_to_ir_type(out.term.ctype) = out.term.value.type
    /\ input.t = "BIT_NOT_EXPR" =>
         /\ out.term.ctype = int_type
         /\ out.term.value.type = c_type_to_ir_type(OperandType(input.arg))

\* ~ was applied to a long.
BitNotOfLong ==
  /\ ExprLowered
  /\ input.t = "BIT_NOT_EXPR"
  /\ input.arg.t = "CAST_EXPR"
  /\ input.arg.cast_type = CInt("LONG", TRUE)
  /\ out.term.ctype = int_type
  /\ out.term.value.type = IrInt(64)

-----------------------------------------------------------------------------
(* Comparisons of the addresses of globals: translation units              *)
(*   int a[2];  char b[2];  int c[2][2];                                   *)
(*   int t(int *p) { return x == y; }     (or  x != y)                     *)
(* with x and y among a, b, c and p.                                       *)

AddressOperands == {"a", "b", "c", "p"}

AddressCmps == {"EQUAL_EXPR", "NOT_EQUAL_EXPR"}

AddressCmpUnit(op, x, y) ==
  <<ToplevelDecl("", Decl("a", array_type(int_type, 2), NoInitializer)),
    ToplevelDecl("", Decl("b", array_type(char_type, 2), NoInitializer)),
    ToplevelDecl("", Decl("c", array_type(array_type(int_type, 2), 2),
                          NoInitializer)),
    FunctionDef("t", CFunction(int_type, <<CPointer(int_type)>>, FALSE),
                <<"p">>,
                CompoundStatement(
                  <<BlockItemStatement(
                      ReturnStatement(
                        BinaryExpr(op, IdentifierExpr(x),
                                   IdentifierExpr(y))))>>))>>

InitAddressCmp ==
  \E op \in AddressCmps, x \in AddressOperands, y \in AddressOperands :
    InitToplevel(AddressCmpUnit(op, x, y))

SpecAddressCmp == InitAddressCmp /\ [][NextToplevel]_vars

\* The comparison that t returns, and what t returns: the operand of its
\* ret instruction.
AddressCmp == out.unit[4].body.block_item_list[1].statement.expr

ReturnedValue ==
  LET instrs == builder.pool[Last(BlocksOfT)].instrs
  IN  Last(instrs).args[1]

\* Both operands of the comparison are globals.
GlobalOperands ==
  AddressCmp.arg1.identifier # "p" /\ AddressCmp.arg2.identifier # "p"

\* C26: a comparison of the addresses of two globals folds to its value:
\* g == g to 1 and g != g to 0, and for two distinct globals == to 0 and
\* != to 1.
C26_GlobalCmpFoldsToItsValue ==
  Emitted /\ GlobalOperands =>
    /\ ReturnedValue.t = "IR_VALUE_CONST"
    /\ ReturnedValue.u
         = IF (AddressCmp.arg1.identifier = AddressCmp.arg2.identifier)
                = (AddressCmp.t = "EQUAL_EXPR")
             THEN 1 ELSE 0

\* What holds: the comparison of two globals folds to 1 when it is != and
\* to 0 when it is ==, whichever the globals.
GlobalCmpFoldsAsDistinct ==
  Emitted /\ GlobalOperands =>
    /\ ReturnedValue.t = "IR_VALUE_CONST"
    /\ ReturnedValue.u = IF AddressCmp.t = "NOT_EQUAL_EXPR" THEN 1 ELSE 0

\* a == a was folded to 0.
SameGlobalFoldedUnequal ==
  /\ Emitted
  /\ AddressCmp = BinaryExpr("EQUAL_EXPR", IdentifierExpr("a"),
                             IdentifierExpr("a"))
  /\ ReturnedValue = value_const(IrInt(32), 0)

-----------------------------------------------------------------------------
(* Pointer arithmetic run on 64-bit values. A value is a word of four      *)
(* digits of 16 bits, the least significant first; a value of an IR type   *)
(* of w bits has the bits from w on clear.                                 *)

DigitBase == Pow2(16)

WordOf(d1, d2, d3, d4) == <<d1, d2, d3, d4>>

\* The word x cut down to its low w bits.
Mask(x, w) ==
  [k \in 1..4 |->
     IF w >= 16 * k THEN x[k]
     ELSE IF w <= 16 * (k - 1) THEN 0
     ELSE x[k] % Pow2(w - 16 * (k - 1))]

\* The carry into digit k of x + y.
RECURSIVE AddCarry(_, _, _)
AddCarry(x, y, k) ==
  IF k = 1 THEN 0
  ELSE (x[k - 1] + y[k - 1] + AddCarry(x, y, k - 1)) \div DigitBase

\* x + y, -x and x - y modulo 2^64.
WordAdd(x, y) ==
  [k \in 1..4 |-> (x[k] + y[k] + AddCarry(x, y, k)) % DigitBase]

WordNeg(x) ==
  WordAdd([k \in 1..4 |-> DigitBase - 1 - x[k]], WordOf(1, 0, 0, 0))

WordSub(x, y) == WordAdd(x, WordNeg(y))

\* The carry into digit k of x * c, and x * c modulo 2^64, for a c of one
\* digit.
RECURSIVE MulCarry(_, _, _)
MulCarry(x, c, k) ==
  IF k = 1 THEN 0
  ELSE (x[k - 1] * c + MulCarry(x, c, k - 1)) \div DigitBase

WordMul(x, c) ==
  [k \in 1..4 |-> (x[k] * c + MulCarry(x, c, k)) % DigitBase]

\* The remainder carried into digit k of x / c, and the quotient of the
\* unsigned x by a c of one digit.
RECURSIVE DivRemainder(_, _, _)
DivRemainder(x, c, k) ==
  IF k = 4 THEN 0
  ELSE (DivRemainder(x, c, k + 1) * DigitBase + x[k + 1]) % c

WordDiv(x, c) ==
  [k \in 1..4 |-> (DivRemainder(x, c, k) * DigitBase + x[k]) \div c]

\* Bit w - 1 of x is set: x is negative as a signed value of w bits.
IsNegative(x, w) ==
  (x[((w - 1) \div 16) + 1] \div Pow2((w - 1) % 16)) % 2 = 1

\* The signed value of w bits in x as a value of 64 bits.
SignExtend(x, w) ==
  IF w < 64 /\ IsNegative(x, w)
    THEN WordSub(x, [k \in 1..4 |->
                       IF k = (w \div 16) + 1 THEN Pow2(w % 16) ELSE 0])
  ELSE x

\* The quotient, rounded towards zero, of the signed value of w bits in x
\* by a positive c of one digit.
SignedDiv(x, c, w) ==
  IF IsNegative(x, w)
    THEN Mask(WordNeg(WordDiv(WordNeg(SignExtend(x, w)), c)), w)
  ELSE WordDiv(x, c)

\* The word of a small integer as a value of w bits.
WordOfInt(v, w) ==
  IF v >= 0 THEN Mask(WordOf(v % DigitBase, v \div DigitBase, 0, 0), w)
  ELSE Mask(WordNeg(WordOf((-v) % DigitBase, (-v) \div DigitBase, 0, 0)), w)

\* The value of an operand: a constant, an argument, or the result of an
\* instruction.
WideOperand(v, regs, argv) ==
  CASE v.t = "IR_VALUE_CONST" -> WordOfInt(v.u, v.type.bit_width)
    [] v.t = "IR_VALUE_ARG" -> argv[v.u + 1]
    [] v.t = "IR_VALUE_INSTR" -> regs[v.u]

WideStuck == [stuck |-> TRUE, result |-> WordOf(0, 0, 0, 0)]

\* The straight-line block is run from instruction i up to its ret: locals
\* are cells addressed by the instruction that makes them.
RECURSIVE WideRun(_, _, _, _, _, _)
WideRun(block, instrs, i, regs, mem, argv) ==
  IF i > Len(instrs) THEN WideStuck ELSE
  LET instr == instrs[i]
      id == <<block, i>>
      w == instr.type.bit_width
      arg(k) == WideOperand(instr.args[k], regs, argv)
      Set(v) == WideRun(block, instrs, i + 1, Put(regs, id, v), mem, argv)
  IN  CASE instr.op = "OP_LOCAL" -> Set(id)
        [] instr.op = "OP_STORE" ->
             WideRun(block, instrs, i + 1, regs, Put(mem, arg(1), arg(2)),
                     argv)
        [] instr.op = "OP_LOAD" ->
             IF arg(1) \in DOMAIN mem THEN Set(mem[arg(1)]) ELSE WideStuck
        [] instr.op = "OP_ZEXT" -> Set(arg(1))
        [] instr.op = "OP_SEXT" ->
             Set(Mask(SignExtend(arg(1), instr.args[1].type.bit_width), w))
        [] instr.op \in {"OP_TRUNC", "OP_CAST"} -> Set(Mask(arg(1), w))
        [] instr.op = "OP_ADD" -> Set(Mask(WordAdd(arg(1), arg(2)), w))
        [] instr.op = "OP_SUB" -> Set(Mask(WordSub(arg(1), arg(2)), w))
        [] instr.op = "OP_MUL" /\ instr.args[2].t = "IR_VALUE_CONST" ->
             Set(Mask(WordMul(arg(1), instr.args[2].u), w))
        [] instr.op = "OP_DIV" /\ instr.args[2].t = "IR_VALUE_CONST" ->
             Set(SignedDiv(arg(1), instr.args[2].u, w))
        [] instr.op = "OP_RET" -> [stuck |-> FALSE, result |-> arg(1)]
        [] OTHER -> WideStuck

\* The function entry of a unit, with either order of lowering the two
\* operands of a binary operator.
InitToplevelEitherOrder(unit) ==
  /\ builder = ToplevelBuilder
  /\ env \in {[InitEnv EXCEPT !.right_operand_first = o] : o \in BOOLEAN}
  /\ pc = "toplevel"
  /\ machine = NoMachine
  /\ input = unit
  /\ out = [unit |-> unit]

-----------------------------------------------------------------------------
(* Pointer arithmetic: translation units                                   *)
(*   R t(T *p, T *q, I i) { return E; }                                    *)
(* where E is  p - q  and R is long, or E is one of  p + i,  i + p,  p - i *)
(* and R is a pointer to T; T is char, int or long and I is char, short,   *)
(* int or unsigned. t is then run on addresses below and above 2^32 and on *)
(* i from -1 to 2.                                                         *)

PointeeTypes == {char_type, int_type, CInt("LONG", TRUE)}

IndexTypes ==
  {char_type, CInt("SHORT", TRUE), int_type, CInt("INT", FALSE)}

PointerExprs ==
  {BinaryExpr("ADD_EXPR", IdentifierExpr("p"), IdentifierExpr("i")),
   BinaryExpr("ADD_EXPR", IdentifierExpr("i"), IdentifierExpr("p")),
   BinaryExpr("MINUS_EXPR", IdentifierExpr("p"), IdentifierExpr("i"))}

PointerDifference ==
  BinaryExpr("MINUS_EXPR", IdentifierExpr("p"), IdentifierExpr("q"))

PointerUnit(R, T, I, expr) ==
  <<FunctionDef("t", CFunction(R, <<CPointer(T), CPointer(T), I>>, FALSE),
                <<"p", "q", "i">>,
                CompoundStatement(
                  <<BlockItemStatement(ReturnStatement(expr))>>))>>

PointerUnits ==
  {PointerUnit(CInt("LONG", TRUE), T, int_type, PointerDifference) :
     T \in PointeeTypes}
    \cup {PointerUnit(CPointer(T), T, I, expr) :
            T \in PointeeTypes, I \in IndexTypes, expr \in PointerExprs}

\* Addresses: 4096, 4112, 2^32 + 4096 and 2^33 + 4096.
Addresses ==
  {WordOf(4096, 0, 0, 0), WordOf(4112, 0, 0, 0), WordOf(4096, 0, 1, 0),
   WordOf(4096, 0, 2, 0)}

IndexValues == {-1, 0, 2}

InitPointers == \E unit \in PointerUnits : InitToplevelEitherOrder(unit)

\* The emitted t is run on two addresses and an index.
RunWide ==
  /\ pc = "done"
  /\ ~Stopped(builder)
  /\ ~machine.running
  /\ \E p \in Addresses, q \in Addresses, i \in IndexValues :
       LET argv == <<p, q,
                     WordOfInt(i, c_type_to_ir_type(
                                    out.unit[1].type.arg_type_array[3])
                                    .bit_width)>>
           Ran(r) == machine' = [running |-> TRUE, argv |-> argv,
                                 index |-> i, stuck |-> r.stuck,
                                 result |-> r.result]
       IN  Ran(WideRun(BlocksOfT[1], builder.pool[BlocksOfT[1]].instrs, 1,
                       <<>>, <<>>, argv))
  /\ UNCHANGED <<builder, env, pc, input, out>>

NextPointers == ToplevelFunctionDef \/ ToplevelEnd \/ RunWide

SpecPointers == InitPointers /\ [][NextPointers]_vars

\* The expression that t returns, the size of what p points to, and the
\* type of i.
PointerExpr == out.unit[1].body.block_item_list[1].statement.expr

PointeeSize == c_type_size(out.unit[1].type.arg_type_array[1].pointee_type)

IndexType == out.unit[1].type.arg_type_array[3]

PointerRan == machine.running /\ ~machine.stuck

\* The instructions of t of that operation.
InstrsOfOp(op) ==
  SelectSeq(builder.pool[BlocksOfT[1]].instrs, LAMBDA instr : instr.op = op)

\* C25: pointer minus pointer is (left - right) / sizeof(*pointee) on the
\* pointer-sized integers, and the result has the signed pointer-sized
\* integer type, so a difference that does not fit in 32 bits is kept.
C25_PointerDifference ==
  /\ Emitted /\ PointerExpr = PointerDifference =>
       InstrsOfOp("OP_DIV")[1].type = c_type_to_ir_type(int_ptr_type)
  /\ PointerRan /\ PointerExpr = PointerDifference =>
       machine.result
         = SignedDiv(WordSub(machine.argv[1], machine.argv[2]),
                     PointeeSize, 64)

\* The difference fits in 32 bits.
FitsInt(x) ==
  SignExtend(Mask(x, 32), 32) = x

\* What holds: the difference is narrowed to an int before it is divided,
\* so it is right when left - right fits in 32 bits.
PointerDifferenceAsInt ==
  /\ Emitted /\ PointerExpr = PointerDifference =>
       InstrsOfOp("OP_DIV")[1].type = c_type_to_ir_type(int_type)
  /\ PointerRan /\ PointerExpr = PointerDifference =>
       machine.result
         = SignExtend(
             SignedDiv(Mask(WordSub(machine.argv[1], machine.argv[2]), 32),
                       PointeeSize, 32),
             32)
  /\ PointerRan /\ PointerExpr = PointerDifference
       /\ FitsInt(WordSub(machine.argv[1], machine.argv[2])) =>
       machine.result
         = SignedDiv(WordSub(machine.argv[1], machine.argv[2]),
                     PointeeSize, 64)

\* Two int pointers 2^32 bytes apart were subtracted and the result was 0.
LargeDifferenceLost ==
  /\ PointerRan
  /\ PointerExpr = PointerDifference
  /\ PointeeSize = 4
  /\ machine.argv[1] = WordOf(4096, 0, 1, 0)
  /\ machine.argv[2] = WordOf(4096, 0, 0, 0)
  /\ machine.result = WordOf(0, 0, 0, 0)

\* A negative difference that fits was computed.
SmallDifferenceKept ==
  /\ PointerRan
  /\ PointerExpr = PointerDifference
  /\ PointeeSize = 4
  /\ machine.argv[1] = WordOf(4096, 0, 0, 0)
  /\ machine.argv[2] = WordOf(4112, 0, 0, 0)
  /\ machine.result = WordOfInt(-4, 64)

-----------------------------------------------------------------------------
(* Pointer plus and minus a runtime integer, in the translation units of   *)
(* SpecPointers.                                                           *)

\* The index is added to or subtracted from the pointer.
IndexArithmetic == PointerExpr \in PointerExprs

\* The address p + i * size or p - i * size modulo 2^64, for the index
\* taken as the 64-bit value index.
Displaced(index) ==
  LET scaled == WordMul(index, PointeeSize)
  IN  IF PointerExpr.t = "ADD_EXPR" THEN WordAdd(machine.argv[1], scaled)
      ELSE WordSub(machine.argv[1], scaled)

\* C29: for a pointer p and a runtime signed integer i narrower than a
\* pointer, p + i and p - i are p + i * sizeof(*pointee) and
\* p - i * sizeof(*pointee) modulo 2^64 with i taken as a signed value, so
\* a negative i moves the pointer the other way.
C29_SignedIndexScaled ==
  PointerRan /\ IndexArithmetic /\ IndexType.is_signed =>
    machine.result
      = Displaced(SignExtend(machine.argv[3],
                             c_type_to_ir_type(IndexType).bit_width))

\* What holds: the index is taken as an unsigned value, which is right for
\* an unsigned index and for a signed one that is not negative.
IndexScaledAsUnsigned ==
  /\ PointerRan /\ IndexArithmetic =>
       machine.result = Displaced(machine.argv[3])
  /\ PointerRan /\ IndexArithmetic /\ machine.index >= 0 =>
       machine.result
         = Displaced(SignExtend(machine.argv[3],
                                c_type_to_ir_type(IndexType).bit_width))

\* p + i ran for an int pointer at 4096 and the int i = -1, and the result
\* is 4096 + 4 * (2^32 - 1) = 2^34 + 4092 and not 4092.
NegativeIndexMovedForward ==
  /\ PointerRan
  /\ PointerExpr = BinaryExpr("ADD_EXPR", IdentifierExpr("p"),
                              IdentifierExpr("i"))
  /\ PointeeSize = 4
  /\ IndexType = int_type
  /\ machine.index = -1
  /\ machine.argv[1] = WordOf(4096, 0, 0, 0)
  /\ machine.result = WordOf(4092, 0, 4, 0)

-----------------------------------------------------------------------------
(* The memset of an automatic initializer, on the translation units of     *)
(* SpecInit: which leaf slots of the object the initializer names, and     *)
(* what h does to the object.                                              *)

\* The offsets of the scalar leaves of an object of the type at base.
RECURSIVE LeafSlots(_, _)
LeafSlots(type, base) ==
  IF type.t = "ARRAY_TYPE"
    THEN UNION {LeafSlots(type.elem_type,
                          base + (i - 1) * c_type_size(type.elem_type)) :
                i \in 1..type.size}
  ELSE IF type.t = "STRUCT_TYPE"
    THEN UNION {LeafSlots(type.fields[i].type,
                          base + type.ir_type.fields[i].offset) :
                i \in 1..Len(type.fields)}
  ELSE {base}

\* The offset of element or field i (from 1) in an aggregate at base.
ElemOffset(type, i, base) ==
  IF type.t = "ARRAY_TYPE"
    THEN base + (i - 1) * c_type_size(type.elem_type)
    ELSE base + type.ir_type.fields[i].offset

\* The element (from 1) that a designator names in an aggregate type.
DesignatedElem(type, designator) ==
  IF designator.t = "INDEX_DESIGNATOR" THEN designator.index_expr.value + 1
  ELSE FieldNumber(type.fields, designator.field_name)

\* The leaf slots that an initializer of C gives a value: an expression
\* gives one to its scalar; in a brace list an element with a designator
\* initializes the element named, one without the element after the
\* previous one.
RECURSIVE InitializedSlots(_, _, _)
RECURSIVE InitializedElems(_, _, _, _, _)
InitializedElems(type, elems, k, previous, base) ==
  IF k > Len(elems) THEN {}
  ELSE
    LET i == IF elems[k].designator_list = <<>> THEN previous + 1
             ELSE DesignatedElem(type, elems[k].designator_list[1])
    IN  InitializedSlots(ElemType(type, i), elems[k].initializer,
                         ElemOffset(type, i, base))
          \cup InitializedElems(type, elems, k + 1, i, base)

InitializedSlots(type, init, base) ==
  IF init.t = "BRACE_INITIALIZER"
    THEN InitializedElems(type, init.initializer_element_list, 1, 0, base)
    ELSE {base}

\* h has been lowered and no assertion has rejected its initializer.
AutoLowered == Len(input) = 1 /\ ~Stopped(builder)

\* The positions in h of the calls of memset, and of the stores and the
\* calls of memcpy.
Memsets ==
  {k \in DOMAIN InstrsOf("h") :
     /\ InstrsOf("h")[k].op = "OP_CALL"
     /\ InstrsOf("h")[k].args[1] = builtin_memset}

Writes ==
  {k \in DOMAIN InstrsOf("h") :
     InstrsOf("h")[k].op = "OP_STORE" \/ IsMemcpy(InstrsOf("h")[k])}

\* The offset in the object that the write at position k of h goes to.
WrittenSlot(k) ==
  LET instr == InstrsOf("h")[k]
  IN  OffsetOf(instr.args[IF instr.op = "OP_STORE" THEN 1 ELSE 2])

\* The initializer of the unit gives every leaf slot of the object a value.
NamesEverySlot ==
  LeafSlots(InitializedType, 0)
    \subseteq InitializedSlots(InitializedType,
                               out.unit[2].decl.initializer, 0)

\* The memset clears the whole object: from its start, with zero, over
\* its size.
ClearsObject(k) ==
  LET instr == InstrsOf("h")[k]
  IN  /\ OffsetOf(instr.args[2]) = 0
      /\ instr.args[3] = value_const(c_type_to_ir_type(int_type), 0)
      /\ instr.args[4].u = c_type_size(InitializedType)

FullInitializerStoresOnly ==
  AutoLowered /\ NamesEverySlot /\ Memsets = {} /\ Writes # {}

-----------------------------------------------------------------------------
(* Repeated declarations of a global: translation units made of            *)
(*   int x;   int x = 1;   int x = 2;   static int x;   extern int x;      *)
(*   static int x = 1;   extern int x = 1;   int y;   int y = 1;   ...     *)
(* in any order.                                                           *)

\* The most declarations of a translation unit.
MaxGlobalDecls == 3

GlobalInits == {NoInitializer} \cup
                 {ExprInitializer(IntLiteralExpr(v)) : v \in {1, 2}}

GlobalDecls ==
  {ToplevelDecl(storage, Decl("x", int_type, init)) :
     storage \in {"", "static", "extern"}, init \in GlobalInits}
    \cup {ToplevelDecl("", Decl("y", int_type, init)) :
            init \in {NoInitializer, ExprInitializer(IntLiteralExpr(1))}}

InitGlobals ==
  \E unit \in SeqsUpTo(GlobalDecls, MaxGlobalDecls) : InitToplevel(unit)

NextGlobals == ToplevelDeclaration \/ ToplevelEnd

SpecGlobals == InitGlobals /\ [][NextGlobals]_vars

\* The processed declarations of the name that have an initializer, and
\* those that define it: every one but an extern without initializer.
WithInitializer(name) ==
  {i \in 1..Len(Processed) :
     /\ Processed[i].decl.name = name
     /\ Processed[i].decl.initializer # NoInitializer}

Defining(name) ==
  {i \in 1..Len(Processed) :
     /\ Processed[i].decl.name = name
     /\ ~(Processed[i].storage = "extern"
          /\ Processed[i].decl.initializer = NoInitializer)}

\* The constant that the initializer of a declaration denotes.
ConstantOf(decl) ==
  add_int_const(c_type_to_ir_type(decl.type),
                IF decl.initializer = NoInitializer THEN 0
                ELSE decl.initializer.expr.value)

InitializerOf(name) == builder.globals[GlobalNamed(builder, name)].initializer

\* C27: once a declaration of a global has installed the constant of its
\* explicit initializer, no later declaration of the name without an
\* initializer replaces it with a zero constant: the global keeps the
\* constant of the last declaration that had an initializer.
C27_InitializerKept ==
  ~Stopped(builder) =>
    \A name \in {"x", "y"} :
      WithInitializer(name) # {} =>
        InitializerOf(name)
          = ConstantOf(Processed[SetMax(WithInitializer(name))].decl)

\* What the code does: each declaration that is not an extern without
\* initializer installs its constant, zero when it has no initializer.
LastDeclarationInstalls ==
  ~Stopped(builder) =>
    \A name \in {"x", "y"} :
      Defining(name) # {} =>
        InitializerOf(name)
          = ConstantOf(Processed[SetMax(Defining(name))].decl)

\* int x = 1; int x;  leaves x with the zero constant.
ConstantReplacedByZero ==
  /\ ~Stopped(builder)
  /\ Len(Processed) = 2
  /\ Processed[1] = ToplevelDecl("", Decl("x", int_type,
                                          ExprInitializer(IntLiteralExpr(1))))
  /\ Processed[2] = ToplevelDecl("", Decl("x", int_type, NoInitializer))
  /\ InitializerOf("x") = add_int_const(c_type_to_ir_type(int_type), 0)

\* int x = 1; extern int x;  leaves x with its constant.
ExternKeepsConstant ==
  /\ ~Stopped(builder)
  /\ Len(Processed) = 2
  /\ Processed[2] = ToplevelDecl("extern", Decl("x", int_type, NoInitializer))
  /\ InitializerOf("x") = add_int_const(c_type_to_ir_type(int_type), 1)

-----------------------------------------------------------------------------
(* String literals as initializers: translation units                      *)
(*   void h(void) { char a[N] = "s"; }          char g[N] = "s";           *)
(*   void h(void) { char a[2][N] = {"s", "t"}; } char g[2][N] = {"s","t"}; *)
(* with literals shorter than, as long as, and longer than the array.      *)

\* The longest char array.
MaxLength == 4

StringChars == {97, 98}

StringInits ==
  {ExprInitializer(StringLiteralExpr(chars)) :
     chars \in SeqsUpTo(StringChars, MaxChars)}

CharRow(n) == array_type(char_type, n)

\* The initializers tried for a char array, and for an array of two, each
\* row of which is given.
StringInitsOf(type) ==
  IF type.elem_type.t = "INTEGER_TYPE" THEN StringInits
  ELSE {BraceInitializer(
           [i \in DOMAIN rows |-> InitializerElement(<<>>, rows[i])]) :
         rows \in SeqOfLen(StringInits, 2)}

InitStrings ==
  \E n \in 1..MaxLength :
    \E type \in {CharRow(n), array_type(CharRow(n), 2)} :
      \E init \in StringInitsOf(type) : InitToplevel(InitUnit(type, init))

SpecStrings == InitStrings /\ [][NextToplevel]_vars

\* The string literals of the initializer of the unit, each with the
\* length of the char array it initializes.
LiteralsOf(type, init) ==
  IF init.t = "EXPR_INITIALIZER" THEN {<<init.expr.chars, type.size>>}
  ELSE {<<init.initializer_element_list[i].initializer.expr.chars,
          type.elem_type.size>> :
        i \in DOMAIN init.initializer_element_list}

\* Some literal leaves elements of its array past its terminator.
ShortLiteral ==
  \E lit \in LiteralsOf(InitializedType, out.unit[2].decl.initializer) :
    Len(lit[1]) + 1 < lit[2]

\* The bytes that C gives a char array of length n initialized by the
\* literal: its characters, then zeros.
LiteralBytes(chars, n) ==
  [at \in 1..n |-> IF at <= Len(chars) THEN chars[at] ELSE 0]

\* The bytes that C gives the object the unit initializes.
StringImage ==
  LET init == out.unit[2].decl.initializer
      type == InitializedType
  IN  IF init.t = "EXPR_INITIALIZER"
        THEN LiteralBytes(init.expr.chars, type.size)
      ELSE Concat([i \in 1..type.size |->
                     IF i <= Len(init.initializer_element_list)
                       THEN LiteralBytes(
                              init.initializer_element_list[i]
                                .initializer.expr.chars,
                              type.elem_type.size)
                       ELSE LiteralBytes(<<>>, type.elem_type.size)])

\* C28: no sub-element of a CInitializer is read or written past what was
\* allocated for its node; for a char array longer than the string literal
\* and its terminator, the elements past the literal are zero, in the
\* automatic object and in the constant of the global.
C28_SubElementsInBounds ==
  /\ ~builder.undefined
  /\ Len(input) <= 1 /\ ~builder.aborted => AutoImage = StringImage
  /\ BothLowered => ConstImage = StringImage

\* What the code does: the reads stay inside the allocated leaves unless
\* a literal is shorter than its array, and then the bytes are those of C.
InBoundsUnlessShort ==
  /\ builder.undefined => ShortLiteral
  /\ Len(input) <= 1 /\ ~Stopped(builder) => AutoImage = StringImage
  /\ BothLowered /\ ~builder.undefined => ConstImage = StringImage

\* char a[N] = "s" with N over the length of "s" and its terminator: the
\* loop of is_full_initializer has gone past the leaves of the literal.
ReadPastLiteral ==
  /\ ShortLiteral
  /\ InitializedType.elem_type.t = "INTEGER_TYPE"
  /\ Len(input) = 1
  /\ builder.undefined

\* A literal that fills its array with its terminator is lowered.
FittingLiteralLowered ==
  /\ ~ShortLiteral
  /\ BothLowered
  /\ ~builder.undefined
  /\ InitializedType.size = 3

-----------------------------------------------------------------------------
(* How often the body of an inline function is emitted, on the             *)
(* translation units of SpecInline.                                        *)

\* The return instructions of that value among all the blocks that were
\* allocated in the translation unit: one for each time the body that
\* returns the value was lowered.
Emissions(value) ==
  {at \in UNION {{<<blk, k>> : k \in DOMAIN builder.pool[blk].instrs} :
                 blk \in DOMAIN builder.pool} :
     /\ builder.pool[at[1]].instrs[at[2]].op = "OP_RET"
     /\ builder.pool[at[1]].instrs[at[2]].args[1].u = value}

\* The processed extern inline declarations of f that follow a definition
\* of f with inline and have its type.
Instantiations ==
  {j \in 1..Len(Processed) :
     /\ Processed[j].t = "DECL"
     /\ Processed[j].storage = "extern inline"
     /\ Processed[j].decl.name = "f"
     /\ Processed[j].decl.type = IntFunction
     /\ \E i \in 1..(j - 1) :
          /\ Processed[i].t = "FUNCTION_DEF"
          /\ Processed[i].name = "f"
          /\ Processed[i].is_inline}

\* C30: the body of a deferred inline function is emitted at most once in
\* a translation unit, however many extern inline declarations of its
\* name are processed.
C30_InlineBodyEmittedOnce ==
  ~Stopped(builder) => Cardinality(Emissions(1)) <= 1

\* What the code does: the body is lowered once for every extern inline
\* declaration of the name, each time into a fresh entry block of f.
EmittedPerDeclaration ==
  ~Stopped(builder) =>
    /\ Cardinality(Emissions(1)) = Cardinality(Instantiations)
    /\ Instantiations # {} =>
         Len(builder.globals[GlobalNamed(builder, "f")].blocks) = 1

\* inline int f(void) { return 1; } extern inline int f(void);
\* extern inline int f(void);  lowers the body of f twice.
BodyEmittedTwice ==
  /\ ~Stopped(builder)
  /\ Cardinality(Instantiations) = 2
  /\ Cardinality(Emissions(1)) = 2

=============================================================================
